---- MODULE Spec2Model ----
(***************************************************************************)
(* The reliable-delivery core of the UDP chat (src/src/udp_chat.c): one    *)
(* process with its main thread and its three workers (receiver, sender,   *)
(* retransmitter), the two mutexes, the acknowledgment table, and the      *)
(* datagrams it receives from and sends to the network.                    *)
(* The latency tracker of src/src/utils.c, as src/src/p2pchat.c calls it   *)
(* from its send loop, its receiver thread and its cleanup thread.         *)
(***************************************************************************)
EXTENDS Integers, Naturals, Sequences, FiniteSets, TLC

(* ------------------------------ bounds -------------------------------- *)
\* Capacity of the acknowledgment table.  The program uses 64
\* (udp_chat.c:42); the model keeps the same comparisons on a smaller table.
MAX_UNACKED_PACKETS == 2
\* Retransmission timeout in clock ticks (2000 ms in udp_chat.c:41).
TIMEOUT_MS == 1
\* Last value of the millisecond clock the model lets time reach.
MaxTime == 2
\* Number of inputs (lines from fgets, datagrams from recvfrom) of a session.
MaxInputs == 4
\* Largest sequence number carried by a datagram the network makes up.
MaxSeq == 1
\* Modulus of the sequence counters.  uint32_t arithmetic is modulo 2^32,
\* which is beyond the integers of the model checker; the counters of the
\* model wrap at this smaller modulus instead.
UINT32_MOD == 4
\* Capacity of the latency tracker's pending list.  The program uses 100
\* (utils.h:24); the model keeps the same comparisons on a shorter list.
MAX_PENDING_MSGS == 3
\* Age in milliseconds after which cleanup_fn drops a pending entry (5000 in
\* utils.h:26).
DEFAULT_TIMEOUT_MS == 1
\* Length of the longest line handed to the latency tracker.
MaxMsgLen == 1

(* ------------------------- program constants -------------------------- *)
PAYLOAD_SIZE == 1024
\* Bytes of type, seq_num and payload_len, which precede the payload, and
\* sizeof(Packet).
HEADER_SIZE == 12
PACKET_SIZE == HEADER_SIZE + PAYLOAD_SIZE
ENC_IV_LEN == 16
\* utils.h and p2pchat.c: the room for an entry's text and for a formatted
\* message.
MAX_MSG_LEN == 512
SEND_BUF == 4096
PKT_MSG == 0
PKT_ACK == 1
PKT_FIN == 2
\* Stand-in for the fixed key and the block cipher's byte alphabet.
SECRET_KEY == 3
ByteMod == 5

(* ------------------------------ packets ------------------------------- *)
\* Payload bytes that are not the output of encrypt_message.
ZeroPayload == [iv |-> 0, ct |-> <<>>, pad |-> FALSE]
GarbagePayload == [iv |-> 1, ct |-> <<4>>, pad |-> FALSE]

Packet(t, s, l, p) == [type |-> t, seq_num |-> s, payload_len |-> l, payload |-> p]

\* Statics are zero-initialised.
ZeroPacket == Packet(0, 0, 0, ZeroPayload)

\* Addresses: the all-zero sockaddr of an unset peer_addr, and two hosts.
NoAddr == "0.0.0.0"
Addrs == {"A", "B"}

\* Lines typed by the user (after trim_newline); <<>> is the empty line.
Lines == {<<>>, <<2, 1>>}

(* ----------------------------- encryption ----------------------------- *)
\* AES-256-CBC under key k and the IV, as a keyed byte substitution.
Cipher(p, k, iv) == [i \in 1..Len(p) |-> (p[i] + k + iv) % ByteMod]
Decipher(c, k, iv) == [i \in 1..Len(c) |-> (c[i] + 2 * ByteMod - k - iv) % ByteMod]

\* Length of IV plus PKCS#7-padded ciphertext for n plaintext bytes.
EncLen(k) == ENC_IV_LEN + ((k \div 16) + 1) * 16

\* Mutant: the length returned is the space asked for, not the length of IV
\* and ciphertext.
encrypt_message_need(plaintext, key, out_cap, ok, iv) ==
  IF out_cap < ENC_IV_LEN + Len(plaintext) + ENC_IV_LEN \/ ~ok
  THEN [len |-> -1, out |-> ZeroPayload]
  ELSE [len |-> ENC_IV_LEN + Len(plaintext) + ENC_IV_LEN,
        out |-> [iv |-> iv, ct |-> Cipher(plaintext, key, iv), pad |-> TRUE]]

\* encrypt_message: ok is whether RAND_bytes and the EVP calls succeed, iv
\* the random IV.  Returns len = -1 on failure.
encrypt_message(plaintext, key, out_cap, ok, iv) ==
  IF out_cap < ENC_IV_LEN + Len(plaintext) + ENC_IV_LEN \/ ~ok
  THEN [len |-> -1, out |-> ZeroPayload]
  ELSE [len |-> EncLen(Len(plaintext)),
        out |-> [iv |-> iv, ct |-> Cipher(plaintext, key, iv), pad |-> TRUE]]

\* Mutant: the result of EVP_DecryptFinal_ex is not tested, so input without
\* valid padding comes back as plaintext.
decrypt_message_unchecked(in, in_len, key, plaintext_cap) ==
  IF in_len < ENC_IV_LEN \/ plaintext_cap < in_len - ENC_IV_LEN
  THEN [len |-> -1, text |-> <<>>]
  ELSE [len |-> Len(in.ct), text |-> Decipher(in.ct, key, in.iv)]

\* decrypt_message: EVP_DecryptFinal_ex rejects input that is not whole
\* blocks ending in valid padding.
decrypt_message(in, in_len, key, plaintext_cap) ==
  IF in_len < ENC_IV_LEN \/ plaintext_cap < in_len - ENC_IV_LEN
  THEN [len |-> -1, text |-> <<>>]
  ELSE IF ~in.pad \/ in_len # EncLen(Len(in.ct))
  THEN [len |-> -1, text |-> <<>>]
  ELSE [len |-> Len(in.ct), text |-> Decipher(in.ct, key, in.iv)]

(* ----------------------------- wire frame ----------------------------- *)
\* The frame is the Packet as it lies in memory: sendto is handed &packet
\* and sizeof(Packet), recvfrom fills &rx_packet.  The three header fields
\* are four bytes each, least significant byte first; the payload bytes
\* follow as they are.
Bytes4(v) ==
  <<v % 256, (v \div 256) % 256, (v \div 65536) % 256, (v \div 16777216) % 256>>

Word(b) == b[1] + 256 * b[2] + 65536 * b[3] + 16777216 * b[4]

Frame(pkt) ==
  [head |-> Bytes4(pkt.type) \o Bytes4(pkt.seq_num) \o Bytes4(pkt.payload_len),
   payload |-> pkt.payload]

Unframe(f) ==
  Packet(Word(SubSeq(f.head, 1, 4)), Word(SubSeq(f.head, 5, 8)),
         Word(SubSeq(f.head, 9, 12)), f.payload)

(* ------------------------------- state -------------------------------- *)
VARIABLES
  running,                   \* static volatile int running
  sock,                      \* "open" | "closed" | "invalid"
  peer_addr,                 \* static struct sockaddr_in peer_addr
  peer_addr_known,           \* static volatile int peer_addr_known
  next_seq_num_to_send,      \* uint32_t
  expected_seq_num_to_recv,  \* uint32_t
  unacked_packets,           \* Packet[MAX_UNACKED_PACKETS], indexed from 1
  sent_time_ms,              \* uint64_t[MAX_UNACKED_PACKETS]
  unacked_count,             \* int
  peer_addr_mutex,           \* holder: "none" or a thread
  unacked_mutex,             \* holder: "none" or a thread
  pc,                        \* position of main, rx, tx, rt
  rx_packet,                 \* receiver_fn's local rx_packet
  sender_addr,               \* receiver_fn's local sender_addr
  n,                         \* receiver_fn's local n, the length recvfrom returned
  tx_packet,                 \* sender_fn's local tx_packet
  clock,                     \* value get_time_ms() returns
  out,                       \* per thread: the datagrams its last step handed to sendto
  delivered,                 \* history: "Peer: ..." lines printed, in order
  tx_result,                 \* history: how the sender's last line ended
  ninputs,                   \* history: lines and datagrams read so far
  trip,                      \* a line and a packet taken through encryption, the
                             \* wire frame and decryption, outside any session
  far,                       \* the datagrams under way to and from the process
                             \* at the peer's address, and that process's receiver
  nalloc,                    \* history: sequence numbers allocated so far
  wire,                      \* history: per sequence number, the Message first
                             \* handed to sendto and when and by whom it last was
  g_stats,                   \* utils.c: static perf_stats_t g_stats
  pending_messages,          \* utils.c: pending_msg_t[MAX_PENDING_MSGS], from 0
  pending_count,             \* utils.c: static int pending_count
  next_sequence,             \* utils.c: static uint32_t next_sequence
  perf_pc,                   \* position of p2pchat.c's main loop, receiver_fn
                             \* and cleanup_fn inside the utils.c call each makes
  perf_loc,                  \* the locals of those calls
  perf_hist,                 \* history: the last utils.c call of a single-threaded
                             \* caller and what it returned
  removed                    \* history: how often each sequence number was taken
                             \* off the pending list

vars == <<running, sock, peer_addr, peer_addr_known, next_seq_num_to_send,
          expected_seq_num_to_recv, unacked_packets, sent_time_ms,
          unacked_count, peer_addr_mutex, unacked_mutex, pc, rx_packet,
          sender_addr, n, tx_packet, clock, out, delivered, tx_result,
          ninputs, nalloc, wire, far, trip, g_stats, pending_messages,
          pending_count, next_sequence, perf_pc, perf_loc, perf_hist,
          removed>>

shared == <<running, sock, peer_addr, peer_addr_known, next_seq_num_to_send,
            expected_seq_num_to_recv>>
tracker == <<unacked_packets, sent_time_ms, unacked_count>>
locks == <<peer_addr_mutex, unacked_mutex>>
locals == <<rx_packet, sender_addr, n, tx_packet>>
history == <<delivered, ninputs, nalloc, wire, trip>>
latency == <<g_stats, pending_messages, pending_count, next_sequence, perf_pc,
             perf_loc, perf_hist, removed>>

Slots == 1..MAX_UNACKED_PACKETS

\* The record of transmissions is kept only by the specification that
\* starts it with SeqsUnsent; from WireOff it stays off.
WireOff == <<>>
NoTx == [first |-> ZeroPacket, at |-> -1, by |-> "none"]
SeqsUnsent == [s \in 0..(UINT32_MOD - 1) |-> NoTx]

\* The far end is modelled only by the specification that starts it with
\* FarIdle; from FarOff the network swallows what is sent.
FarOff == <<>>
LocalAddr == "A"
FarAddr == "B"
FarIdle == [toB |-> <<>>, toA |-> <<>>, pc |-> "rx_recv",
            rx_packet |-> ZeroPacket, peer_addr |-> NoAddr,
            peer_addr_known |-> 0, expected_seq_num_to_recv |-> 0,
            delivered |-> <<>>]

\* The latency tracker of utils.c.  Slots are numbered from 0 as in the
\* source; an entry holds the sequence number, the send time and the text.
PendingIdx == 0..(MAX_PENDING_MSGS - 1)
ZeroMsg == [sequence |-> 0, timestamp |-> 0, content |-> <<>>]
NoCall == [op |-> "none", ret |-> 0, last |-> -1, nops |-> 0]
NoLocals == [i |-> 0, sequence |-> 0, j |-> 0, now |-> 0, expired |-> 0,
             msg |-> 0, message |-> <<>>, seq |-> 0]

\* Removals are counted only by the specification that starts the count
\* with NoneRemoved; from RemovedOff it stays off.
RemovedOff == <<>>
NoneRemoved == [s \in 0..(UINT32_MOD - 1) |-> 0]

\* utils.c's statics at their initialisers, which are also the values
\* perf_init() stores; no call of utils.c is under way.
PerfStatics ==
  /\ g_stats = [total_messages |-> 0]
  /\ pending_messages = [i \in PendingIdx |-> ZeroMsg]
  /\ pending_count = 0
  /\ next_sequence = 1
  /\ perf_pc = [main |-> "idle", rx |-> "idle", cl |-> "idle"]
  /\ perf_loc = NoLocals
  /\ perf_hist = NoCall

\* The state when main() is entered: statics at their initialisers.
Statics ==
  /\ PerfStatics
  /\ running = 1
  /\ sock = "invalid"
  /\ peer_addr = NoAddr
  /\ peer_addr_known = 0
  /\ next_seq_num_to_send = 0
  /\ expected_seq_num_to_recv = 0
  /\ unacked_packets = [i \in Slots |-> ZeroPacket]
  /\ sent_time_ms = [i \in Slots |-> 0]
  /\ unacked_count = 0
  /\ peer_addr_mutex = "none"
  /\ unacked_mutex = "none"
  /\ pc = [main |-> "start", rx |-> "idle", tx |-> "idle", rt |-> "idle"]
  /\ rx_packet = ZeroPacket
  /\ sender_addr = NoAddr
  /\ n = 0
  /\ tx_packet = ZeroPacket
  /\ clock = 0
  /\ out = [main |-> <<>>, rx |-> <<>>, tx |-> <<>>, rt |-> <<>>]
  /\ delivered = <<>>
  /\ tx_result = "none"
  /\ ninputs = 0
  /\ nalloc = 0

\* No round trip is under way in a session.
TripOff == <<>>

Init ==
  /\ Statics /\ wire = WireOff /\ far = FarOff /\ trip = TripOff
  /\ removed = RemovedOff

\* One sendto(sock, pkt, ..., to).
Datagram(pkt, to) == [pkt |-> pkt, to |-> to]

\* The network after the datagrams ds were handed to sendto: those addressed
\* to the far process queue up for it in order, nothing is lost.
Posted(ds) ==
  IF DOMAIN far = {} THEN far
  ELSE [far EXCEPT !.toB = @ \o SelectSeq([k \in 1..Len(ds) |-> ds[k].pkt],
                                          LAMBDA q : \E k \in 1..Len(ds) :
                                            ds[k].pkt = q /\ ds[k].to = FarAddr)]

\* The network after recvfrom returned the datagram at the head of the
\* queue towards this process.
Taken ==
  IF DOMAIN far = {} THEN far ELSE [far EXCEPT !.toA = Tail(@)]

\* Mutant: every datagram is handed to sendto twice.
SendsTwice(th, ds) ==
  /\ out' = [out EXCEPT ![th] = ds \o ds]
  /\ far' = Posted(ds \o ds)

\* Thread th's step hands the datagrams ds to sendto, in this order.
Sends(th, ds) ==
  /\ out' = [out EXCEPT ![th] = ds]
  /\ far' = Posted(ds)

\* The record after thread th handed the datagrams ds to sendto at the
\* current clock reading: for each Message among them, by whom and when;
\* the packet is kept from the first transmission of its sequence number.
Recorded(th, ds) ==
  [s \in DOMAIN wire |->
     LET hits == {k \in 1..Len(ds) : ds[k].pkt.type = PKT_MSG
                                     /\ ds[k].pkt.seq_num = s}
     IN IF hits = {} THEN wire[s]
        ELSE [first |-> IF wire[s].by = "none"
                        THEN ds[CHOOSE k \in hits : TRUE].pkt
                        ELSE wire[s].first,
              at |-> clock, by |-> th]]

\* Indeterminate contents of the fields an automatic Packet never had
\* assigned (payload_len and payload of ack_packet and fin_packet).
Uninit == {[payload_len |-> 0, payload |-> ZeroPayload],
           [payload_len |-> 7, payload |-> GarbagePayload]}

\* Thread th moves to label l.
Goto(th, l) == pc' = [pc EXCEPT ![th] = l]

\* The receiver's iteration ends.  sender_addr and n are rewritten by the
\* next recvfrom before anything reads them, so their values are dropped.
RxIterationEnds ==
  /\ Goto("rx", "rx_loop")
  /\ sender_addr' = NoAddr
  /\ n' = 0

(* ------------------------------- main --------------------------------- *)
StartThreads == pc' = [main |-> "join", rx |-> "rx_loop", tx |-> "tx_loop",
                       rt |-> "rt_loop"]

\* mode "server": bind succeeds, the peer is not known yet.
MainServer ==
  /\ pc.main = "start"
  /\ sock' = "open"
  /\ StartThreads
  /\ UNCHANGED <<running, peer_addr, peer_addr_known, next_seq_num_to_send,
                 expected_seq_num_to_recv, tracker, locks, locals, clock,
                 out, far, tx_result, history,
                 latency>>

\* mode "server": bind fails, main returns 1 before any thread starts.
MainBindFail ==
  /\ pc.main = "start"
  /\ sock' = "closed"
  /\ Goto("main", "exit")
  /\ UNCHANGED <<running, peer_addr, peer_addr_known, next_seq_num_to_send,
                 expected_seq_num_to_recv, tracker, locks, locals, clock,
                 out, far, tx_result, history,
                 latency>>

\* any other mode: the user names the peer before the workers start.
MainClient(a) ==
  /\ pc.main = "start"
  /\ sock' = "open"
  /\ peer_addr' = a
  /\ peer_addr_known' = 1
  /\ StartThreads
  /\ UNCHANGED <<running, next_seq_num_to_send, expected_seq_num_to_recv,
                 tracker, locks, locals, clock, out, far, tx_result, history,
                 latency>>

\* Mutant: main goes on to its cleanup without waiting for the workers.
MainJoinNoWait ==
  /\ pc.main = "join"
  /\ Goto("main", "cleanup")
  /\ UNCHANGED <<shared, tracker, locks, locals, clock, out, far, tx_result,
                 history,
                 latency>>

\* join_thread x3 returns once the three workers have returned.
MainJoin ==
  /\ pc.main = "join"
  /\ pc.rx = "done" /\ pc.tx = "done" /\ pc.rt = "done"
  /\ Goto("main", "cleanup")
  /\ UNCHANGED <<shared, tracker, locks, locals, clock, out, far, tx_result,
                 history,
                 latency>>

\* Cleanup: one FIN to the peer if it is known.
MainFin(u) ==
  /\ pc.main = "cleanup"
  /\ Sends("main", IF peer_addr_known # 0
                   THEN <<Datagram(Packet(PKT_FIN, next_seq_num_to_send,
                                          u.payload_len, u.payload),
                                   peer_addr)>>
                   ELSE <<>>)
  /\ Goto("main", "close")
  /\ UNCHANGED <<shared, tracker, locks, locals, clock, tx_result, history,
                 latency>>

MainClose ==
  /\ pc.main = "close"
  /\ sock' = "closed"
  /\ Sends("main", <<>>)
  /\ Goto("main", "exit")
  /\ UNCHANGED <<running, peer_addr, peer_addr_known, next_seq_num_to_send,
                 expected_seq_num_to_recv, tracker, locks, locals, clock,
                 tx_result, history,
                 latency>>

(* ------------------------------ receiver ------------------------------ *)
\* Sequence numbers a datagram from the network may carry.
RxSeqs == (0..MaxSeq) \cup {unacked_packets[i].seq_num : i \in 1..unacked_count}

\* Payloads of the Message datagrams the network delivers: blobs the peer
\* encrypted under the shared key, and bytes that are no such blob.
RxBlobs ==
  {[payload_len |-> EncLen(Len(l)),
    payload |-> encrypt_message(l, SECRET_KEY, PAYLOAD_SIZE, TRUE, 2).out] :
      l \in Lines \ {<<>>}}
  \cup {[payload_len |-> 32, payload |-> GarbagePayload]}

\* Whole-frame datagrams recvfrom may return.
InPackets ==
  {Packet(PKT_MSG, s, b.payload_len, b.payload) : s \in RxSeqs, b \in RxBlobs}
  \cup {Packet(PKT_ACK, s, 0, ZeroPayload) : s \in RxSeqs}
  \cup {Packet(PKT_FIN, 0, 0, ZeroPayload), Packet(3, 0, 0, ZeroPayload)}

\* while (running)
RxLoop ==
  /\ pc.rx = "rx_loop"
  /\ Goto("rx", IF running # 0 THEN "rx_recv" ELSE "done")
  /\ Sends("rx", <<>>)
  /\ UNCHANGED <<shared, tracker, locks, locals, clock, tx_result, history,
                 latency>>

\* recvfrom returns n <= 0: continue.
RxRecvFail ==
  /\ pc.rx = "rx_recv"
  /\ Goto("rx", "rx_loop")
  /\ UNCHANGED <<shared, tracker, locks, locals, clock, out, far, tx_result,
                 history,
                 latency>>

\* Mutant: the peer is learned anew from every datagram.
PeerCheckAlways(known) == "rx_peer_lock"

\* if (!peer_addr_known): where the receiver goes after recvfrom.
PeerCheck(known) == IF known = 0 THEN "rx_peer_lock" ELSE "rx_dispatch"

\* recvfrom returns a datagram; the unlocked test of peer_addr_known.
RxRecv(pkt, from, cap) ==
  /\ pc.rx = "rx_recv"
  /\ ninputs < cap
  /\ ninputs' = ninputs + 1
  /\ rx_packet' = pkt
  /\ sender_addr' = from
  /\ n' = PACKET_SIZE
  /\ Goto("rx", PeerCheck(peer_addr_known))
  /\ far' = Taken
  /\ UNCHANGED <<shared, tracker, locks, tx_packet, clock, out, tx_result,
                 delivered, nalloc, wire, trip,
                 latency>>

\* What rx_packet holds where a short datagram does not overwrite it: the
\* fields of the datagram before, or, in a receiver that has not yet
\* received a whole frame, whatever the automatic variable happens to hold.
Stale(u) ==
  IF rx_packet = ZeroPacket
  THEN Packet(0, 0, u.payload_len, u.payload)
  ELSE rx_packet

\* recvfrom returns a datagram of len bytes, fewer than the header has: the
\* bytes overwrite the first len bytes of rx_packet (the type, and from 8
\* bytes on the sequence number), and the receiver goes on as after any
\* datagram.
RxRecvShort(t, s, len, u, from, cap) ==
  /\ pc.rx = "rx_recv"
  /\ ninputs < cap
  /\ ninputs' = ninputs + 1
  /\ len > 0 /\ len < HEADER_SIZE
  /\ rx_packet' = [Stale(u) EXCEPT !.type = IF len >= 4 THEN t ELSE @,
                                    !.seq_num = IF len >= 8 THEN s ELSE @]
  /\ sender_addr' = from
  /\ n' = len
  /\ Goto("rx", PeerCheck(peer_addr_known))
  /\ far' = Taken
  /\ UNCHANGED <<shared, tracker, locks, tx_packet, clock, out, tx_result,
                 delivered, nalloc, wire, trip,
                 latency>>

RxPeerLock ==
  /\ pc.rx = "rx_peer_lock"
  /\ peer_addr_mutex = "none"
  /\ peer_addr_mutex' = "rx"
  /\ Goto("rx", "rx_peer_set")
  /\ UNCHANGED <<shared, tracker, unacked_mutex, locals, clock, out, far,
                 tx_result, history,
                 latency>>

\* Mutant: the receiver leaves the section without unlocking.
RxPeerSetKeepsLock ==
  /\ pc.rx = "rx_peer_set"
  /\ peer_addr' = sender_addr
  /\ peer_addr_known' = 1
  /\ Goto("rx", "rx_dispatch")
  /\ UNCHANGED <<running, sock, next_seq_num_to_send,
                 expected_seq_num_to_recv, tracker, locks, locals,
                 clock, out, far, tx_result, history,
                 latency>>

\* memcpy(&peer_addr, &sender_addr), peer_addr_known = 1, unlock.
RxPeerSet ==
  /\ pc.rx = "rx_peer_set"
  /\ peer_addr' = sender_addr
  /\ peer_addr_known' = 1
  /\ peer_addr_mutex' = "none"
  /\ Goto("rx", "rx_dispatch")
  /\ UNCHANGED <<running, sock, next_seq_num_to_send,
                 expected_seq_num_to_recv, tracker, unacked_mutex, locals,
                 clock, out, far, tx_result, history,
                 latency>>

\* Mutant: the ACK names the cursor instead of the received sequence number.
AckForCursor(rx, u) ==
  Packet(PKT_ACK, expected_seq_num_to_recv, u.payload_len, u.payload)

\* The ACK built for a received Message: its type and sequence number are
\* assigned, the rest of the automatic ack_packet is not.
AckFor(rx, u) == Packet(PKT_ACK, rx.seq_num, u.payload_len, u.payload)

\* Mutant: the ACK goes back to where the datagram came from.
AckDestSender(peer, from) == from

\* The address the ACK is sent to: peer_addr, whoever sent the datagram.
AckDest(peer, from) == peer

\* case PKT_MSG, first half: build and send the ACK.
RxMsgAck(u) ==
  /\ pc.rx = "rx_dispatch"
  /\ rx_packet.type = PKT_MSG
  /\ Sends("rx", <<Datagram(AckFor(rx_packet, u),
                            AckDest(peer_addr, sender_addr))>>)
  /\ Goto("rx", "rx_msg_check")
  /\ UNCHANGED <<shared, tracker, locks, locals, clock, tx_result, history,
                 latency>>

\* Mutant: a Message at or ahead of the cursor is accepted.
ExpectedOrAhead(s, e) == s >= e

\* The test that gates delivery.
Expected(s, e) == s = e

\* Mutant: the counter steps by two.
NextSeqSkips(s) == (s + 2) % UINT32_MOD

\* The sequence number following s in uint32_t arithmetic.
NextSeq(s) == (s + 1) % UINT32_MOD

\* What the call of decrypt_message at line 152 can return for the received
\* packet.  A payload_len of more than PAYLOAD_SIZE that passes the two
\* length tests makes EVP_DecryptUpdate read past the end of rx_packet:
\* the bytes there may or may not end in valid padding.
DecryptOutcomes(rx) ==
  {decrypt_message(rx.payload, rx.payload_len, SECRET_KEY, PAYLOAD_SIZE)}
  \cup IF /\ rx.payload_len > PAYLOAD_SIZE
          /\ rx.payload_len - ENC_IV_LEN <= PAYLOAD_SIZE
       THEN {[len |-> 1, text |-> <<0>>]}
       ELSE {}

\* case PKT_MSG, second half: deliver if the sequence number is the expected one.
RxMsgDeliver ==
  /\ pc.rx = "rx_msg_check"
  /\ \E dec \in DecryptOutcomes(rx_packet) :
        IF Expected(rx_packet.seq_num, expected_seq_num_to_recv)
        THEN /\ delivered' = IF dec.len >= 0
                             THEN Append(delivered,
                                         [seq |-> rx_packet.seq_num,
                                          text |-> dec.text])
                             ELSE delivered
             /\ expected_seq_num_to_recv' = NextSeq(expected_seq_num_to_recv)
        ELSE UNCHANGED <<delivered, expected_seq_num_to_recv>>
  /\ Sends("rx", <<>>)
  /\ RxIterationEnds
  /\ UNCHANGED <<running, sock, peer_addr, peer_addr_known,
                 next_seq_num_to_send, tracker, locks, rx_packet, tx_packet,
                 clock, tx_result, ninputs, nalloc, wire, trip,
                 latency>>

\* case PKT_ACK: take the table lock.
RxAckLock ==
  /\ pc.rx = "rx_dispatch"
  /\ rx_packet.type = PKT_ACK
  /\ unacked_mutex = "none"
  /\ unacked_mutex' = "rx"
  /\ Goto("rx", "rx_ack_scan")
  /\ UNCHANGED <<shared, tracker, peer_addr_mutex, locals, clock, out, far,
                 tx_result, history,
                 latency>>

\* Index of the first of the count entries of tbl with sequence number s, or 0.
FindSeq(tbl, count, s) ==
  LET hits == {i \in 1..count : tbl[i].seq_num = s}
  IN IF hits = {} THEN 0 ELSE CHOOSE i \in hits : \A j \in hits : i <= j

\* Mutant: the count drops without the last entry being moved into the gap.
RemoveBySeqNoMove(tbl, times, count, s) ==
  IF FindSeq(tbl, count, s) = 0
  THEN [packets |-> tbl, times |-> times, count |-> count]
  ELSE [packets |-> tbl, times |-> times, count |-> count - 1]

\* A removal that moves the last packet but leaves its timestamp behind.
RemoveBySeqStampStays(tbl, times, count, s) ==
  IF FindSeq(tbl, count, s) = 0
  THEN [packets |-> tbl, times |-> times, count |-> count]
  ELSE [packets |-> [tbl EXCEPT ![FindSeq(tbl, count, s)] = tbl[count]],
        times |-> times,
        count |-> count - 1]

\* The for loop of case PKT_ACK: the first match is overwritten with the
\* last entry and the count drops by one.
RemoveBySeq(tbl, times, count, s) ==
  LET i == FindSeq(tbl, count, s)
  IN IF i = 0
     THEN [packets |-> tbl, times |-> times, count |-> count]
     ELSE [packets |-> [tbl EXCEPT ![i] = tbl[count]],
           times |-> [times EXCEPT ![i] = times[count]],
           count |-> count - 1]

RxAckScan ==
  /\ pc.rx = "rx_ack_scan"
  /\ LET r == RemoveBySeq(unacked_packets, sent_time_ms, unacked_count,
                          rx_packet.seq_num)
     IN /\ unacked_packets' = r.packets
        /\ sent_time_ms' = r.times
        /\ unacked_count' = r.count
  /\ unacked_mutex' = "none"
  /\ RxIterationEnds
  /\ UNCHANGED <<shared, peer_addr_mutex, rx_packet, tx_packet, clock, out, far,
                 tx_result, history,
                 latency>>

\* case PKT_FIN
RxFin ==
  /\ pc.rx = "rx_dispatch"
  /\ rx_packet.type = PKT_FIN
  /\ running' = 0
  /\ RxIterationEnds
  /\ UNCHANGED <<sock, peer_addr, peer_addr_known, next_seq_num_to_send,
                 expected_seq_num_to_recv, tracker, locks, rx_packet,
                 tx_packet, clock, out, far, tx_result, history,
                 latency>>

\* A type that is none of the three cases: the switch does nothing.
RxOther ==
  /\ pc.rx = "rx_dispatch"
  /\ rx_packet.type \notin {PKT_MSG, PKT_ACK, PKT_FIN}
  /\ RxIterationEnds
  /\ UNCHANGED <<shared, tracker, locks, rx_packet, tx_packet, clock, out, far,
                 tx_result, history,
                 latency>>

(* ------------------------------- sender ------------------------------- *)
\* while (running); a new iteration has a new tx_packet.
TxLoop ==
  /\ pc.tx = "tx_loop"
  /\ Goto("tx", IF running # 0 THEN "tx_input" ELSE "done")
  /\ tx_result' = "none"
  /\ tx_packet' = ZeroPacket
  /\ Sends("tx", <<>>)
  /\ UNCHANGED <<shared, tracker, locks, rx_packet, sender_addr, n, clock,
                 history,
                 latency>>

\* fgets returns NULL (end of input).
TxEof ==
  /\ pc.tx = "tx_input"
  /\ running' = 0
  /\ Goto("tx", "done")
  /\ UNCHANGED <<sock, peer_addr, peer_addr_known, next_seq_num_to_send,
                 expected_seq_num_to_recv, tracker, locks, locals, clock,
                 out, far, tx_result, history,
                 latency>>

\* Mutant: the return value of encrypt_message is not tested.
LineOutcomeUnchecked(line, enc) ==
  IF running = 0 THEN "stopped"
  ELSE IF Len(line) = 0 THEN "empty"
  ELSE IF peer_addr_known = 0 THEN "nopeer"
  ELSE "encrypted"

\* Mutant: the stop flag is not looked at after fgets returns.
LineOutcomeNoStop(line, enc) ==
  IF Len(line) = 0 THEN "empty"
  ELSE IF peer_addr_known = 0 THEN "nopeer"
  ELSE IF enc.len < 0 THEN "encfail"
  ELSE "encrypted"

\* Mutant: the sender does not test whether the peer is known.
LineOutcomeNoPeerCheck(line, enc) ==
  IF running = 0 THEN "stopped"
  ELSE IF Len(line) = 0 THEN "empty"
  ELSE IF enc.len < 0 THEN "encfail"
  ELSE "encrypted"

\* How the tests between fgets and the table lock end for a line.
LineOutcome(line, enc) ==
  IF running = 0 THEN "stopped"
  ELSE IF Len(line) = 0 THEN "empty"
  ELSE IF peer_addr_known = 0 THEN "nopeer"
  ELSE IF enc.len < 0 THEN "encfail"
  ELSE "encrypted"

\* The IV RAND_bytes produces: one not used for an earlier message.
FreshIV == next_seq_num_to_send + 1

\* fgets returns a line: the tests on running, the empty line and the peer,
\* then encryption into tx_packet.  The session is cut off after cap inputs.
TxInput(line, ok, cap) ==
  /\ pc.tx = "tx_input"
  /\ ninputs < cap
  /\ ninputs' = ninputs + 1
  /\ LET enc == encrypt_message(line, SECRET_KEY, PAYLOAD_SIZE, ok, FreshIV)
         res == LineOutcome(line, enc)
     IN /\ tx_result' = res
        /\ tx_packet' = IF res = "encrypted"
                        THEN Packet(PKT_MSG, tx_packet.seq_num, enc.len, enc.out)
                        ELSE tx_packet
        /\ Goto("tx", CASE res = "stopped" -> "done"
                        [] res = "encrypted" -> "tx_lock"
                        [] OTHER -> "tx_loop")
  /\ UNCHANGED <<shared, tracker, locks, rx_packet, sender_addr, n, clock,
                 out, far, delivered, nalloc, wire, trip,
                 latency>>

\* Mutant: the sender enters the locked section without waiting for the
\* table lock to be free.
TxLockNoWait ==
  /\ pc.tx = "tx_lock"
  /\ unacked_mutex' = "tx"
  /\ Goto("tx", "tx_locked")
  /\ UNCHANGED <<shared, tracker, peer_addr_mutex, locals, clock, out, far,
                 tx_result, history,
                 latency>>

\* mutex_lock(&unacked_mutex) of the send path.
TxLock ==
  /\ pc.tx = "tx_lock"
  /\ unacked_mutex = "none"
  /\ unacked_mutex' = "tx"
  /\ Goto("tx", "tx_locked")
  /\ UNCHANGED <<shared, tracker, peer_addr_mutex, locals, clock, out, far,
                 tx_result, history,
                 latency>>

\* Mutant: the capacity test lets one entry too many in.
TableFullOffByOne(count) == count > MAX_UNACKED_PACKETS

\* The capacity test of the send path.
TableFull(count) == count >= MAX_UNACKED_PACKETS

\* Mutant: the sequence number is allocated before the capacity test.
CounterAfterEager(full, s) == NextSeq(s)

\* Mutant: the counter is read but not incremented.
CounterAfterStuck(full, s) == s

\* next_seq_num_to_send after the locked section: the increment of line
\* 233 lies behind the continue of the capacity test.
CounterAfter(full, s) == IF full THEN s ELSE NextSeq(s)

\* Under the table lock: full table -> warning and continue; otherwise
\* allocate the sequence number and append the entry.
TxInsert ==
  /\ pc.tx = "tx_locked"
  /\ next_seq_num_to_send' =
       CounterAfter(TableFull(unacked_count), next_seq_num_to_send)
  /\ IF TableFull(unacked_count)
     THEN /\ tx_result' = "full"
          /\ Goto("tx", "tx_loop")
          /\ UNCHANGED <<tracker, tx_packet, nalloc>>
     ELSE LET p == [tx_packet EXCEPT !.seq_num = next_seq_num_to_send]
          IN /\ tx_packet' = p
             /\ unacked_packets' =
                  [unacked_packets EXCEPT ![unacked_count + 1] = p]
             /\ sent_time_ms' =
                  [sent_time_ms EXCEPT ![unacked_count + 1] = clock]
             /\ unacked_count' = unacked_count + 1
             /\ nalloc' = nalloc + 1
             /\ tx_result' = "inserted"
             /\ Goto("tx", "tx_send")
  /\ unacked_mutex' = "none"
  /\ UNCHANGED <<running, sock, peer_addr, peer_addr_known,
                 expected_seq_num_to_recv, peer_addr_mutex, rx_packet,
                 sender_addr, n, clock, out, far, delivered, ninputs, wire, trip,
                 latency>>

\* sendto of the Message, after the lock was released.
TxSend ==
  /\ pc.tx = "tx_send"
  /\ Sends("tx", <<Datagram(tx_packet, peer_addr)>>)
  /\ wire' = Recorded("tx", <<Datagram(tx_packet, peer_addr)>>)
  /\ tx_result' = "sent"
  /\ Goto("tx", "tx_loop")
  /\ UNCHANGED <<shared, tracker, locks, locals, clock, delivered, ninputs,
                 nalloc, trip,
                 latency>>

(* ---------------------------- retransmitter --------------------------- *)
\* while (running)
RtLoop ==
  /\ pc.rt = "rt_loop"
  /\ Goto("rt", IF running # 0 THEN "rt_sleep" ELSE "done")
  /\ Sends("rt", <<>>)
  /\ UNCHANGED <<shared, tracker, locks, locals, clock, tx_result, history,
                 latency>>

\* Sleep(100) ends and the table lock is taken.
RtLock ==
  /\ pc.rt = "rt_sleep"
  /\ unacked_mutex = "none"
  /\ unacked_mutex' = "rt"
  /\ Goto("rt", "rt_scan")
  /\ UNCHANGED <<shared, tracker, peer_addr_mutex, locals, clock, out, far,
                 tx_result, history,
                 latency>>

\* Mutant: an entry counts as overdue as soon as its age reaches the timeout.
OverdueAtTimeout(now, t) == now - t >= TIMEOUT_MS

\* Mutant: the timeout grows with the time the entry was last sent at.
OverdueBackoff(now, t) == now - t > TIMEOUT_MS + t

\* The timeout test of the scan.
Overdue(now, t) == now - t > TIMEOUT_MS

\* Mutant: the scan runs over the whole array, not the first unacked_count
\* slots.
OverdueSlotsAll(now) ==
  SelectSeq([i \in Slots |-> i], LAMBDA i : Overdue(now, sent_time_ms[i]))

\* Indices of the overdue entries, in scan order.
OverdueSlots(now) ==
  SelectSeq([i \in 1..unacked_count |-> i],
            LAMBDA i : Overdue(now, sent_time_ms[i]))

\* Mutant: a retry is given the sequence number the counter stands at.
RetransmitRenumbered(due) ==
  [k \in 1..Len(due) |->
     Datagram([unacked_packets[due[k]] EXCEPT !.seq_num = next_seq_num_to_send],
              peer_addr)]

\* The sendto of the scan for each slot of due, in order: the stored packet
\* as it is.
Retransmit(due) ==
  [k \in 1..Len(due) |-> Datagram(unacked_packets[due[k]], peer_addr)]

\* One scan under the lock: every overdue entry is sent again and stamped.
RtScan ==
  /\ pc.rt = "rt_scan"
  /\ LET now == clock
         due == OverdueSlots(now)
     IN /\ Sends("rt", Retransmit(due))
        /\ wire' = Recorded("rt", Retransmit(due))
        /\ sent_time_ms' = [i \in Slots |->
                              IF i <= unacked_count /\ Overdue(now, sent_time_ms[i])
                              THEN now ELSE sent_time_ms[i]]
  /\ unacked_mutex' = "none"
  /\ Goto("rt", "rt_loop")
  /\ UNCHANGED <<shared, unacked_packets, unacked_count, peer_addr_mutex,
                 locals, clock, tx_result, delivered, ninputs, nalloc, trip,
                 latency>>

(* -------------------------------- time -------------------------------- *)
\* The clock moves on by one reading, up to limit.
TickTo(limit) ==
  /\ clock < limit
  /\ clock' = clock + 1
  /\ UNCHANGED <<shared, tracker, locks, pc, locals, out, far, tx_result, history,
                 latency>>

Tick == TickTo(MaxTime)

(* ---------------------------- specification --------------------------- *)
\* The peer the user names in the active role.
ClientPeers == {"A"}

Step(cap) ==
  \/ MainServer
  \/ MainBindFail
  \/ \E a \in ClientPeers : MainClient(a)
  \/ MainJoin
  \/ \E u \in Uninit : MainFin(u)
  \/ MainClose
  \/ RxLoop
  \/ RxRecvFail
  \/ \E pkt \in InPackets, from \in Addrs : RxRecv(pkt, from, cap)
  \/ RxPeerLock
  \/ RxPeerSet
  \/ \E u \in Uninit : RxMsgAck(u)
  \/ RxMsgDeliver
  \/ RxAckLock
  \/ RxAckScan
  \/ RxFin
  \/ RxOther
  \/ TxLoop
  \/ TxEof
  \/ \E line \in Lines, ok \in BOOLEAN : TxInput(line, ok, cap)
  \/ TxLock
  \/ TxInsert
  \/ TxSend
  \/ RtLoop
  \/ RtLock
  \/ RtScan
  \/ Tick

\* Sessions short enough that the sequence counters do not wrap.
Next == Step(MaxInputs)

Spec == Init /\ [][Next]_vars

\* A long session in the active role: the user keeps typing lines that
\* encrypt, the peer acknowledges pending messages, and the sender's counter
\* passes its modulus.
LongInputs == 2 * UINT32_MOD

NextLong ==
  \/ \E a \in ClientPeers : MainClient(a)
  \/ RxLoop
  \/ \E s \in {unacked_packets[i].seq_num : i \in 1..unacked_count},
        from \in ClientPeers :
        RxRecv(Packet(PKT_ACK, s, 0, ZeroPayload), from, LongInputs)
  \/ RxAckLock
  \/ RxAckScan
  \/ TxLoop
  \/ \E line \in Lines \ {<<>>} : TxInput(line, TRUE, LongInputs)
  \/ TxLock
  \/ TxInsert
  \/ TxSend

SpecLong == Init /\ [][NextLong]_vars

\* A session in the active role that keeps the record of transmissions and
\* runs long enough for an entry to be retransmitted twice: the user types
\* lines that encrypt, the peer acknowledges some of the pending messages,
\* the retransmitter scans, and time passes.
WireTime == 2 * (TIMEOUT_MS + 1)
WireInputs == MaxInputs - 1

InitWire ==
  /\ Statics /\ wire = SeqsUnsent /\ far = FarOff /\ trip = TripOff
  /\ removed = RemovedOff

NextWire ==
  \/ \E a \in ClientPeers : MainClient(a)
  \/ RxLoop
  \/ \E s \in {unacked_packets[i].seq_num : i \in 1..unacked_count},
        from \in ClientPeers :
        RxRecv(Packet(PKT_ACK, s, 0, ZeroPayload), from, WireInputs)
  \/ RxAckLock
  \/ RxAckScan
  \/ TxLoop
  \/ \E line \in Lines \ {<<>>} : TxInput(line, TRUE, WireInputs)
  \/ TxLock
  \/ TxInsert
  \/ TxSend
  \/ RtLoop
  \/ RtLock
  \/ RtScan
  \/ TickTo(WireTime)

SpecWire == InitWire /\ [][NextWire]_vars

\* The same session under the scheduling the threads get: the retransmitter
\* is scheduled and gets the table lock, a thread that holds the lock goes
\* on to release it, and time passes.
FairWire ==
  /\ WF_vars(RtLoop) /\ WF_vars(RtLock) /\ WF_vars(RtScan)
  /\ WF_vars(TxInsert) /\ WF_vars(RxAckScan)
  /\ WF_vars(TickTo(WireTime))

SpecWireFair == SpecWire /\ FairWire

\* Sessions in which the network also delivers frames no peer running this
\* program sends: datagrams shorter than the header, and Messages whose
\* payload_len is more than the payload holds.
ShortLens == {4, 8}
BadLenPackets ==
  {Packet(PKT_MSG, s, l, GarbagePayload) :
     s \in RxSeqs, l \in {PAYLOAD_SIZE + ENC_IV_LEN, PAYLOAD_SIZE + ENC_IV_LEN + 1}}

FrameInputs == MaxInputs - 1

NextFrames ==
  \/ MainServer
  \/ \E a \in ClientPeers : MainClient(a)
  \/ RxLoop
  \/ \E pkt \in InPackets \cup BadLenPackets, from \in Addrs :
        RxRecv(pkt, from, FrameInputs)
  \/ \E t \in {PKT_MSG, PKT_ACK, PKT_FIN}, s \in RxSeqs, len \in ShortLens,
        u \in Uninit, from \in Addrs :
        RxRecvShort(t, s, len, u, from, FrameInputs)
  \/ RxPeerLock
  \/ RxPeerSet
  \/ \E u \in Uninit : RxMsgAck(u)
  \/ RxMsgDeliver
  \/ RxAckLock
  \/ RxAckScan
  \/ RxFin
  \/ RxOther
  \/ TxLoop
  \/ \E line \in Lines \ {<<>>} : TxInput(line, TRUE, FrameInputs)
  \/ TxLock
  \/ TxInsert
  \/ TxSend

SpecFrames == Init /\ [][NextFrames]_vars

\* A short session under the scheduling the threads get once the session is
\* to stop: every thread that can take a step is scheduled, the lock a
\* thread waits for is released by its holder, the retransmitter's Sleep
\* ends, and the receiver's recvfrom returns (with a datagram or an error).
\* fgets need never return.
StopInputs == MaxInputs - 2

NextStop == Step(StopInputs)

RxReturns ==
  \/ RxRecvFail
  \/ \E pkt \in InPackets, from \in Addrs : RxRecv(pkt, from, StopInputs)

FairStop ==
  /\ WF_vars(MainJoin) /\ WF_vars(\E u \in Uninit : MainFin(u))
  /\ WF_vars(MainClose)
  /\ WF_vars(RxLoop) /\ WF_vars(RxReturns)
  /\ WF_vars(RxPeerLock) /\ WF_vars(RxPeerSet)
  /\ WF_vars(\E u \in Uninit : RxMsgAck(u)) /\ WF_vars(RxMsgDeliver)
  /\ SF_vars(RxAckLock) /\ WF_vars(RxAckScan)
  /\ WF_vars(RxFin) /\ WF_vars(RxOther)
  /\ WF_vars(TxLoop) /\ SF_vars(TxLock) /\ WF_vars(TxInsert) /\ WF_vars(TxSend)
  /\ WF_vars(RtLoop) /\ SF_vars(RtLock) /\ WF_vars(RtScan)

SpecStop == Init /\ [][NextStop]_vars /\ FairStop

(* ----------------------------- round trip ---------------------------- *)
\* A line, a key, an IV and a buffer capacity are drawn, the line is
\* encrypted, the blob is put into a packet of a drawn type and sequence
\* number, the packet goes through its wire frame, and the payload that
\* comes out is decrypted under the same key.
TripPlains == {<<>>, <<1>>, <<2, 1>>, [i \in 1..ENC_IV_LEN |-> i % ByteMod]}
TripKeys == 0..(ByteMod - 1)
TripIVs == {0, ByteMod - 1}
TripCaps == {PAYLOAD_SIZE, 3 * ENC_IV_LEN, 2 * ENC_IV_LEN + 1}

TripInputs ==
  [plain : TripPlains, key : TripKeys, iv : TripIVs, cap : TripCaps,
   type : {PKT_MSG, PKT_ACK, PKT_FIN}, seq_num : 0..(UINT32_MOD - 1),
   stage : {"drawn"}]

InitTrip ==
  /\ Statics /\ wire = WireOff /\ far = FarOff /\ trip \in TripInputs
  /\ removed = RemovedOff

session == <<shared, tracker, locks, pc, locals, clock, out, far, tx_result,
             delivered, ninputs, nalloc, wire, latency>>

TripEncrypt ==
  /\ trip.stage = "drawn"
  /\ trip' = [plain |-> trip.plain, key |-> trip.key, iv |-> trip.iv,
              cap |-> trip.cap, type |-> trip.type, seq_num |-> trip.seq_num,
              stage |-> "encrypted",
              blob |-> encrypt_message(trip.plain, trip.key, trip.cap, TRUE,
                                       trip.iv)]
  /\ UNCHANGED session

\* The blob of a successful encryption becomes the payload of a packet,
\* which is handed to sendto.
TripFrame ==
  /\ trip.stage = "encrypted"
  /\ trip.blob.len >= 0
  /\ LET pkt == Packet(trip.type, trip.seq_num, trip.blob.len, trip.blob.out)
     IN trip' = [plain |-> trip.plain, key |-> trip.key, cap |-> trip.cap,
                 stage |-> "framed", packet |-> pkt, frame |-> Frame(pkt)]
  /\ UNCHANGED session

\* recvfrom fills a Packet from the frame.
TripUnframe ==
  /\ trip.stage = "framed"
  /\ trip' = [plain |-> trip.plain, key |-> trip.key, cap |-> trip.cap,
              stage |-> "unframed", packet |-> trip.packet,
              decoded |-> Unframe(trip.frame)]
  /\ UNCHANGED session

TripDecrypt ==
  /\ trip.stage = "unframed"
  /\ trip' = [plain |-> trip.plain, key |-> trip.key, cap |-> trip.cap,
              stage |-> "decrypted", packet |-> trip.packet,
              decoded |-> trip.decoded,
              back |-> decrypt_message(trip.decoded.payload,
                                       trip.decoded.payload_len, trip.key,
                                       trip.cap)]
  /\ UNCHANGED session

NextTrip == TripEncrypt \/ TripFrame \/ TripUnframe \/ TripDecrypt

SpecTrip == InitTrip /\ [][NextTrip]_vars

(* ---------------------------- line lengths --------------------------- *)
\* sizeof(line) in sender_fn; fgets stores at most one byte fewer, and
\* trim_newline only shortens the line.
LINE_SIZE == PAYLOAD_SIZE - 64

\* The lines fgets can return, by length.
TypedLines == {[i \in 1..k |-> i % ByteMod] : k \in 0..(LINE_SIZE - 1)}

InitTyped ==
  /\ Statics /\ wire = WireOff /\ far = FarOff /\ removed = RemovedOff
  /\ trip \in [stage : {"typed"}, line : TypedLines]

\* The sender encrypts the line into encrypted_payload.
TypedEncrypt ==
  /\ trip.stage = "typed"
  /\ trip' = [stage |-> "encrypted", line |-> trip.line,
              enc |-> encrypt_message(trip.line, SECRET_KEY, PAYLOAD_SIZE,
                                      TRUE, 0)]
  /\ UNCHANGED session

\* The blob and its length go into tx_packet, the packet that is inserted
\* and sent.
TypedPacket ==
  /\ trip.stage = "encrypted"
  /\ trip.enc.len >= 0
  /\ trip' = [stage |-> "packet", line |-> trip.line,
              packet |-> Packet(PKT_MSG, 0, trip.enc.len, trip.enc.out)]
  /\ UNCHANGED session

NextTyped == TypedEncrypt \/ TypedPacket

SpecTyped == InitTyped /\ [][NextTyped]_vars

(* ------------------------------ far end ------------------------------- *)
\* The process at the peer's address runs the same program in the passive
\* role.  Its user types nothing and its table stays empty, so of its
\* threads only the receiver acts; far holds that receiver's variables under
\* the names they have in receiver_fn.

\* Those of A's variables a step of the far process cannot touch.
local == <<shared, tracker, locks, pc, locals, clock, out, tx_result, history,
          latency>>

\* recvfrom at the far end returns the next datagram from this process.
FarRecv ==
  /\ DOMAIN far # {}
  /\ far.pc = "rx_recv"
  /\ far.toB # <<>>
  /\ far' = [far EXCEPT !.toB = Tail(@),
                        !.rx_packet = Head(far.toB),
                        !.pc = PeerCheck(far.peer_addr_known)]
  /\ UNCHANGED local

\* The far end learns its peer from the sender address of the datagram.
FarPeerSet ==
  /\ DOMAIN far # {}
  /\ far.pc = "rx_peer_lock"
  /\ far' = [far EXCEPT !.peer_addr = LocalAddr,
                        !.peer_addr_known = 1,
                        !.pc = "rx_dispatch"]
  /\ UNCHANGED local

\* case PKT_MSG at the far end, first half: the ACK goes to its peer_addr.
FarMsgAck(u) ==
  /\ DOMAIN far # {}
  /\ far.pc = "rx_dispatch"
  /\ far.rx_packet.type = PKT_MSG
  /\ far' = [far EXCEPT !.toA = IF far.peer_addr = LocalAddr
                                THEN Append(@, AckFor(far.rx_packet, u))
                                ELSE @,
                        !.pc = "rx_msg_check"]
  /\ UNCHANGED local

\* case PKT_MSG at the far end, second half.
FarMsgDeliver ==
  /\ DOMAIN far # {}
  /\ far.pc = "rx_msg_check"
  /\ LET dec == decrypt_message(far.rx_packet.payload,
                                far.rx_packet.payload_len,
                                SECRET_KEY, PAYLOAD_SIZE)
     IN far' = IF Expected(far.rx_packet.seq_num, far.expected_seq_num_to_recv)
               THEN [far EXCEPT
                       !.delivered = IF dec.len >= 0
                                     THEN Append(@, [seq |-> far.rx_packet.seq_num,
                                                     text |-> dec.text])
                                     ELSE @,
                       !.expected_seq_num_to_recv = NextSeq(@),
                       !.pc = "rx_recv"]
               ELSE [far EXCEPT !.pc = "rx_recv"]
  /\ UNCHANGED local

\* recvfrom of this process returns the next datagram from the far end.
PairRecv(cap) ==
  /\ DOMAIN far # {}
  /\ far.toA # <<>>
  /\ RxRecv(Head(far.toA), FarAddr, cap)

\* A session of two processes over a network that neither loses nor
\* reorders: this one in the active role, its user typing up to PairMsgs
\* lines, the far one in the passive role.
PairMsgs == 2
PairTime == TIMEOUT_MS + 1
PairCap == PairMsgs * (PairTime + 3)
PairLines == {<<2, 1>>, <<1>>}

InitPair ==
  /\ Statics /\ wire = SeqsUnsent /\ far = FarIdle /\ trip = TripOff
  /\ removed = RemovedOff

PairInput == nalloc < PairMsgs /\ \E line \in PairLines : TxInput(line, TRUE, PairCap)

NextPair ==
  \/ MainClient(FarAddr)
  \/ RxLoop
  \/ PairRecv(PairCap)
  \/ RxAckLock
  \/ RxAckScan
  \/ TxLoop
  \/ PairInput
  \/ TxLock
  \/ TxInsert
  \/ TxSend
  \/ RtLoop
  \/ RtLock
  \/ RtScan
  \/ TickTo(PairTime)
  \/ FarRecv
  \/ FarPeerSet
  \/ \E u \in Uninit : FarMsgAck(u)
  \/ FarMsgDeliver

\* The scheduling of the two processes: every thread that can take a step
\* is scheduled, a thread waiting for the table lock gets it (the other
\* holders release it and the retransmitter sleeps between its scans), and
\* recvfrom returns a datagram that has arrived.
FairPair ==
  /\ WF_vars(TxLoop) /\ SF_vars(TxLock) /\ WF_vars(TxInsert) /\ WF_vars(TxSend)
  /\ WF_vars(RxLoop) /\ WF_vars(PairRecv(PairCap))
  /\ SF_vars(RxAckLock) /\ WF_vars(RxAckScan)
  /\ WF_vars(RtScan)
  /\ WF_vars(FarRecv) /\ WF_vars(FarPeerSet)
  /\ WF_vars(\E u \in Uninit : FarMsgAck(u)) /\ WF_vars(FarMsgDeliver)

SpecPair == InitPair /\ [][NextPair]_vars /\ FairPair

\* The same two processes over a network that loses and reorders: a
\* datagram under way to the far end is dropped, or is overtaken by the one
\* sent after it.
NetLose ==
  /\ DOMAIN far # {}
  /\ far.toB # <<>>
  /\ far' = [far EXCEPT !.toB = Tail(@)]
  /\ UNCHANGED local

NetReorder ==
  /\ DOMAIN far # {}
  /\ Len(far.toB) >= 2
  /\ far.toB[1] # far.toB[2]
  /\ far' = [far EXCEPT !.toB = <<@[2], @[1]>> \o SubSeq(@, 3, Len(@))]
  /\ UNCHANGED local

NextLossy == NextPair \/ NetLose \/ NetReorder

SpecLossy == InitPair /\ [][NextLossy]_vars

(* --------------------------- latency tracker --------------------------- *)
\* utils.c keeps, for p2pchat.c, the messages sent and not yet acknowledged.

\* get_timestamp_us(): the clock reading in microseconds.
get_timestamp_us == clock * 1000

\* The lines handed to the tracker (p2pchat.c sends no empty line) and the
\* buffers they are formatted into: p2pchat.c's formatted_msg, and one that
\* has no room for the longest line and its closing '\0'.
PerfMessages == {[i \in 1..k |-> i % ByteMod] : k \in 1..MaxMsgLen}
BufSizes == {Len("SEQ:0:") + MaxMsgLen, SEND_BUF}

\* memmove(&a[dst], &a[dst + 1], cnt * sizeof(pending_msg_t)).
ShiftLeft(a, dst, cnt) ==
  [j \in PendingIdx |-> IF j >= dst /\ j < dst + cnt THEN a[j + 1] ELSE a[j]]

\* The pending list: the first count entries, oldest first.
Pending(a, count) == [k \in 1..count |-> a[k - 1]]
PendingNow == Pending(pending_messages, pending_count)

\* strncpy(msg->content, message, MAX_MSG_LEN - 1) and the closing '\0'.
Content(message) ==
  SubSeq(message, 1, IF Len(message) < MAX_MSG_LEN - 1 THEN Len(message)
                     ELSE MAX_MSG_LEN - 1)

\* An add that makes room at the end of a full list instead of at its head.
perf_add_evicts_newest(a, count, next, message, now) ==
  LET full == count >= MAX_PENDING_MSGS
      c1 == IF full THEN count - 1 ELSE count
  IN [list |-> [a EXCEPT ![c1] = [sequence |-> next, timestamp |-> now,
                                  content |-> Content(message)]],
      count |-> c1 + 1,
      next |-> (next + 1) % UINT32_MOD,
      ret |-> next]

\* perf_add_pending_message(message), as one uninterrupted call: the list,
\* the count and the counter it leaves, and the sequence number it returns.
perf_add_pending_message(a, count, next, message, now) ==
  LET full == count >= MAX_PENDING_MSGS
      a1 == IF full THEN ShiftLeft(a, 0, MAX_PENDING_MSGS - 1) ELSE a
      c1 == IF full THEN count - 1 ELSE count
  IN [list |-> [a1 EXCEPT ![c1] = [sequence |-> next, timestamp |-> now,
                                   content |-> Content(message)]],
      count |-> c1 + 1,
      next |-> (next + 1) % UINT32_MOD,
      ret |-> next]

\* The slots perf_acknowledge_message's search can stop at.
Matches(a, count, sequence) ==
  {i \in PendingIdx : i < count /\ a[i].sequence = sequence}
FirstOf(S) == CHOOSE x \in S : \A y \in S : x <= y

\* perf_acknowledge_message(sequence), as one uninterrupted call.
perf_acknowledge_message(a, count, stats, sequence) ==
  IF Matches(a, count, sequence) = {}
  THEN [list |-> a, count |-> count, stats |-> stats, ret |-> 0]
  ELSE LET i == FirstOf(Matches(a, count, sequence))
       IN [list |-> ShiftLeft(a, i, count - i - 1),
           count |-> count - 1,
           stats |-> [total_messages |->
                        (stats.total_messages + 1) % UINT32_MOD],
           ret |-> 1]

\* now - timestamp > timeout_us on uint64_t: a timestamp later than now
\* makes the difference wrap to a value beyond every timeout.
Expired(now, timestamp, timeout_us) ==
  \/ now < timestamp
  \/ now - timestamp > timeout_us

\* perf_cleanup_expired's loop from slot i on.
RECURSIVE CleanupFrom(_, _, _, _, _)
CleanupFrom(a, count, i, now, timeout_us) ==
  IF i >= count THEN [list |-> a, count |-> count]
  ELSE IF Expired(now, a[i].timestamp, timeout_us)
       THEN CleanupFrom(ShiftLeft(a, i, count - i - 1), count - 1, i, now,
                        timeout_us)
       ELSE CleanupFrom(a, count, i + 1, now, timeout_us)

\* perf_cleanup_expired(timeout_ms), as one uninterrupted call.
perf_cleanup_expired(a, count, timeout_ms, now) ==
  CleanupFrom(a, count, 0, now, timeout_ms * 1000)

\* The number of characters "%u" prints.
RECURSIVE Digits(_)
Digits(u) == IF u < 10 THEN 1 ELSE 1 + Digits(u \div 10)

\* What snprintf(buffer, buffer_size, "SEQ:%u:%s", seq, message) returns.
FormatLen(seq, message) == 4 + Digits(seq) + 1 + Len(message)

\* The int a uint32_t becomes in "return seq".
ToInt(u) == IF 2 * u >= UINT32_MOD THEN u - UINT32_MOD ELSE u

\* perf_format_message(buffer, buffer_size, message), as one uninterrupted
\* call; fits tells whether snprintf had room.
perf_format_message(a, count, next, buffer_size, message, now) ==
  LET add == perf_add_pending_message(a, count, next, message, now)
      fits == FormatLen(add.ret, message) < buffer_size
  IN [list |-> add.list,
      count |-> IF fits THEN add.count ELSE add.count - 1,
      next |-> add.next,
      ret |-> IF fits THEN ToInt(add.ret) ELSE -1,
      seq |-> add.ret,
      fits |-> fits]

\* What a finished call leaves in the history: its name, what it returned,
\* the sequence number the last add took, and a mark that changes with
\* every call.
Called(op, ret, last) ==
  [op |-> op, ret |-> ret, last |-> last, nops |-> 1 - perf_hist.nops]

\* The variables of udp_chat.c, which utils.c does not touch.
chat == <<shared, tracker, locks, pc, locals, out, far, tx_result, history>>

\* A single-threaded caller runs one call after the other.
PerfAdd(message) ==
  LET r == perf_add_pending_message(pending_messages, pending_count,
                                    next_sequence, message, get_timestamp_us)
  IN /\ pending_messages' = r.list
     /\ pending_count' = r.count
     /\ next_sequence' = r.next
     /\ perf_hist' = Called("add", r.ret, r.ret)
     /\ UNCHANGED <<chat, clock, g_stats, perf_pc, perf_loc,
                  removed>>

PerfAck(sequence) ==
  LET r == perf_acknowledge_message(pending_messages, pending_count, g_stats,
                                    sequence)
  IN /\ pending_messages' = r.list
     /\ pending_count' = r.count
     /\ g_stats' = r.stats
     /\ perf_hist' = Called("ack", r.ret, perf_hist.last)
     /\ UNCHANGED <<chat, clock, next_sequence, perf_pc, perf_loc,
                  removed>>

PerfCleanup(timeout_ms) ==
  LET r == perf_cleanup_expired(pending_messages, pending_count, timeout_ms,
                                get_timestamp_us)
  IN /\ pending_messages' = r.list
     /\ pending_count' = r.count
     /\ perf_hist' = Called("cleanup", 0, perf_hist.last)
     /\ UNCHANGED <<chat, clock, g_stats, next_sequence, perf_pc, perf_loc,
                  removed>>

\* perf_reset_stats().
PerfReset ==
  /\ g_stats' = [total_messages |-> 0]
  /\ pending_messages' = [i \in PendingIdx |-> ZeroMsg]
  /\ pending_count' = 0
  /\ perf_hist' = Called("reset", 0, perf_hist.last)
  /\ UNCHANGED <<chat, clock, next_sequence, perf_pc, perf_loc,
                  removed>>

PerfFormat(buffer_size, message) ==
  LET r == perf_format_message(pending_messages, pending_count, next_sequence,
                               buffer_size, message, get_timestamp_us)
  IN /\ pending_messages' = r.list
     /\ pending_count' = r.count
     /\ next_sequence' = r.next
     /\ perf_hist' = Called(IF r.fits THEN "format" ELSE "format_failed",
                            r.ret, r.seq)
     /\ UNCHANGED <<chat, clock, g_stats, perf_pc, perf_loc,
                  removed>>

\* Time passes between two calls.
PerfTick ==
  /\ clock < MaxTime
  /\ clock' = clock + 1
  /\ UNCHANGED <<chat, latency>>

NextPerf ==
  \/ \E message \in PerfMessages : PerfAdd(message)
  \/ \E sequence \in 0..(UINT32_MOD - 1) : PerfAck(sequence)
  \/ \E timeout_ms \in 0..DEFAULT_TIMEOUT_MS : PerfCleanup(timeout_ms)
  \/ PerfReset
  \/ \E buffer_size \in BufSizes, message \in PerfMessages :
       PerfFormat(buffer_size, message)
  \/ PerfTick

SpecPerf == Init /\ [][NextPerf]_vars

(* ----------------------- latency tracker, threads ---------------------- *)
\* p2pchat.c calls utils.c from three threads and takes no lock around the
\* calls: main's send loop formats each line (p2pchat.c:773) and resets on
\* "reset" (:757), receiver_fn hands every text to perf_handle_ack (:481),
\* cleanup_fn calls perf_cleanup_expired (:570).  Each call is therefore a
\* series of steps the other threads' steps can fall between.

InitThreads ==
  /\ Statics /\ wire = WireOff /\ far = FarOff /\ trip = TripOff
  /\ removed = NoneRemoved

\* One more removal of sequence number s.
RemovedOnce(s) ==
  [removed EXCEPT ![s] = IF @ < 2 THEN @ + 1 ELSE @]

Alive == \A th \in DOMAIN perf_pc : perf_pc[th] # "crashed"

\* The process is killed in the step of thread th.
Crash(th) ==
  /\ perf_pc' = [perf_pc EXCEPT ![th] = "crashed"]
  /\ UNCHANGED <<g_stats, pending_messages, pending_count, next_sequence,
                 perf_loc, removed>>

\* main, p2pchat.c:773: perf_format_message(formatted_msg, SEND_BUF, line)
\* is entered.  The sequence counter is kept from wrapping.
PerfMainFormat(message) ==
  /\ Alive
  /\ perf_pc.main = "idle"
  /\ next_sequence # 0
  /\ perf_pc' = [perf_pc EXCEPT !.main = "add"]
  /\ perf_loc' = [perf_loc EXCEPT !.message = message]
  /\ UNCHANGED <<chat, clock, g_stats, pending_messages, pending_count,
                 next_sequence, perf_hist, removed>>

\* perf_add_pending_message, utils.c:68-75: room is made in a full list and
\* msg points at the slot pending_count++ leaves.
PerfMainSlot ==
  /\ Alive
  /\ perf_pc.main = "add"
  /\ LET full == pending_count >= MAX_PENDING_MSGS
         c1 == IF full THEN pending_count - 1 ELSE pending_count
     IN /\ pending_messages' =
             IF full THEN ShiftLeft(pending_messages, 0, MAX_PENDING_MSGS - 1)
             ELSE pending_messages
        /\ removed' = IF full THEN RemovedOnce(pending_messages[0].sequence)
                      ELSE removed
        /\ pending_count' = c1 + 1
        /\ perf_loc' = [perf_loc EXCEPT !.msg = c1]
  /\ perf_pc' = [perf_pc EXCEPT !.main = "add_fill"]
  /\ UNCHANGED <<chat, clock, g_stats, next_sequence, perf_hist>>

\* utils.c:76-81: the entry is written; a slot outside the array is a write
\* out of bounds.
PerfMainFill ==
  /\ Alive
  /\ perf_pc.main = "add_fill"
  /\ IF perf_loc.msg \in PendingIdx
     THEN /\ pending_messages' =
               [pending_messages EXCEPT ![perf_loc.msg] =
                  [sequence |-> next_sequence, timestamp |-> get_timestamp_us,
                   content |-> Content(perf_loc.message)]]
          /\ next_sequence' = (next_sequence + 1) % UINT32_MOD
          /\ perf_loc' = [perf_loc EXCEPT !.seq = next_sequence]
          /\ perf_pc' = [perf_pc EXCEPT !.main = "format"]
          /\ UNCHANGED <<g_stats, pending_count, removed>>
     ELSE Crash("main")
  /\ UNCHANGED <<chat, clock, perf_hist>>

\* The locals of a call are gone when it returns.
Returned(th) ==
  CASE th = "main" -> [perf_loc EXCEPT !.msg = 0, !.message = <<>>, !.seq = 0]
    [] th = "rx" -> [perf_loc EXCEPT !.i = 0, !.sequence = 0]
    [] th = "cl" -> [perf_loc EXCEPT !.j = 0, !.now = 0, !.expired = 0]

\* utils.c:142-150: snprintf, and the count taken back if the text was cut.
PerfMainReturn ==
  /\ Alive
  /\ perf_pc.main = "format"
  /\ pending_count' =
       IF FormatLen(perf_loc.seq, perf_loc.message) >= SEND_BUF
       THEN pending_count - 1 ELSE pending_count
  /\ perf_pc' = [perf_pc EXCEPT !.main = "idle"]
  /\ perf_loc' = Returned("main")
  /\ UNCHANGED <<chat, clock, g_stats, pending_messages, next_sequence,
                 perf_hist, removed>>

\* main, p2pchat.c:757: perf_reset_stats().
PerfMainReset ==
  /\ Alive
  /\ perf_pc.main = "idle"
  /\ g_stats' = [total_messages |-> 0]
  /\ pending_messages' = [i \in PendingIdx |-> ZeroMsg]
  /\ pending_count' = 0
  /\ UNCHANGED <<chat, clock, next_sequence, perf_pc, perf_loc, perf_hist,
                 removed>>

\* receiver_fn, p2pchat.c:481 and utils.c:202-206: the text is "ACK:n" and
\* perf_acknowledge_message(n) is entered.
PerfRxAck(sequence) ==
  /\ Alive
  /\ perf_pc.rx = "idle"
  /\ perf_pc' = [perf_pc EXCEPT !.rx = "ack_scan"]
  /\ perf_loc' = [perf_loc EXCEPT !.i = 0, !.sequence = sequence]
  /\ UNCHANGED <<chat, clock, g_stats, pending_messages, pending_count,
                 next_sequence, perf_hist, removed>>

\* utils.c:86-101: one turn of the search; on a match the statistics are
\* updated.
PerfRxScan ==
  /\ Alive
  /\ perf_pc.rx = "ack_scan"
  /\ IF perf_loc.i >= pending_count
     THEN /\ perf_pc' = [perf_pc EXCEPT !.rx = "idle"]
          /\ perf_loc' = Returned("rx")
          /\ UNCHANGED g_stats
     ELSE IF pending_messages[perf_loc.i].sequence = perf_loc.sequence
          THEN /\ perf_pc' = [perf_pc EXCEPT !.rx = "ack_remove"]
               /\ g_stats' = [total_messages |->
                                (g_stats.total_messages + 1) % UINT32_MOD]
               /\ UNCHANGED perf_loc
          ELSE /\ perf_loc' = [perf_loc EXCEPT !.i = @ + 1]
               /\ UNCHANGED <<g_stats, perf_pc>>
  /\ UNCHANGED <<chat, clock, pending_messages, pending_count, next_sequence,
                 perf_hist, removed>>

\* memmove(&pending_messages[at], &pending_messages[at + 1], (pending_count
\* - at - 1) * sizeof(pending_msg_t)) and pending_count--, which take the
\* entry number s was seen in off the list.  A negative length becomes a
\* huge size_t: the process is killed, or the bytes the copy touched before
\* it would fault lie outside the list.
Remove(th, at, s, next_pc) ==
  /\ \/ /\ pending_count - at - 1 >= 0
        /\ pending_messages' =
             ShiftLeft(pending_messages, at, pending_count - at - 1)
     \/ /\ pending_count - at - 1 < 0
        /\ pending_messages' = pending_messages
  /\ pending_count' = pending_count - 1
  /\ removed' = RemovedOnce(s)
  /\ perf_pc' = [perf_pc EXCEPT ![th] = next_pc]
  /\ perf_loc' = IF next_pc = "idle" THEN Returned(th) ELSE perf_loc
  /\ UNCHANGED <<g_stats, next_sequence>>

\* utils.c:104-109.
PerfRxRemove ==
  /\ Alive
  /\ perf_pc.rx = "ack_remove"
  /\ \/ Remove("rx", perf_loc.i, perf_loc.sequence, "idle")
     \/ pending_count - perf_loc.i - 1 < 0 /\ Crash("rx")
  /\ UNCHANGED <<chat, clock, perf_hist>>

\* cleanup_fn, p2pchat.c:569-570 and utils.c:212-215: the sleep is over and
\* perf_cleanup_expired(DEFAULT_TIMEOUT_MS) reads the clock.
PerfClWake ==
  /\ Alive
  /\ perf_pc.cl = "idle"
  /\ perf_pc' = [perf_pc EXCEPT !.cl = "cl_scan"]
  /\ perf_loc' = [perf_loc EXCEPT !.j = 0, !.now = get_timestamp_us]
  /\ UNCHANGED <<chat, clock, g_stats, pending_messages, pending_count,
                 next_sequence, perf_hist, removed>>

\* utils.c:216-220, 229-231: one turn of the loop up to the printf.
PerfClScan ==
  /\ Alive
  /\ perf_pc.cl = "cl_scan"
  /\ IF perf_loc.j >= pending_count
     THEN /\ perf_pc' = [perf_pc EXCEPT !.cl = "idle"]
          /\ perf_loc' = Returned("cl")
     ELSE IF Expired(perf_loc.now, pending_messages[perf_loc.j].timestamp,
                     DEFAULT_TIMEOUT_MS * 1000)
          THEN /\ perf_pc' = [perf_pc EXCEPT !.cl = "cl_remove"]
               /\ perf_loc' = [perf_loc EXCEPT !.expired =
                                 pending_messages[perf_loc.j].sequence]
          ELSE /\ perf_loc' = [perf_loc EXCEPT !.j = @ + 1]
               /\ UNCHANGED perf_pc
  /\ UNCHANGED <<chat, clock, g_stats, pending_messages, pending_count,
                 next_sequence, perf_hist, removed>>

\* utils.c:223-226.
PerfClRemove ==
  /\ Alive
  /\ perf_pc.cl = "cl_remove"
  /\ \/ Remove("cl", perf_loc.j, perf_loc.expired, "cl_scan")
     \/ pending_count - perf_loc.j - 1 < 0 /\ Crash("cl")
  /\ UNCHANGED <<chat, clock, perf_hist>>

NextThreads ==
  \/ \E message \in PerfMessages : PerfMainFormat(message)
  \/ PerfMainSlot
  \/ PerfMainFill
  \/ PerfMainReturn
  \/ PerfMainReset
  \/ \E sequence \in 0..(UINT32_MOD - 1) : PerfRxAck(sequence)
  \/ PerfRxScan
  \/ PerfRxRemove
  \/ PerfClWake
  \/ PerfClScan
  \/ PerfClRemove
  \/ PerfTick

SpecThreads == InitThreads /\ [][NextThreads]_vars

(* ------------------------------- claims ------------------------------- *)
\* A step of thread th that leaves label l.
StepFrom(th, l) == pc[th] = l /\ pc'[th] # l

\* The entries the table holds: packet and timestamp of the first count slots.
Live(tbl, times, count) == {[pkt |-> tbl[i], at |-> times[i]] : i \in 1..count}
LiveNow == Live(unacked_packets, sent_time_ms, unacked_count)
LiveSeqs == {unacked_packets[i].seq_num : i \in 1..unacked_count}

\* C1: the table never holds fewer than 0 or more than MAX_UNACKED_PACKETS
\* entries, and a send that finds it full fails: packets, timestamps and
\* count stay as they were, nothing is handed to sendto, and the sender goes
\* back to the top of its loop without passing the sendto of the send path.
C1_CapacityBound ==
  /\ [](unacked_count >= 0 /\ unacked_count <= MAX_UNACKED_PACKETS)
  /\ [][(StepFrom("tx", "tx_locked") /\ unacked_count = MAX_UNACKED_PACKETS)
        => /\ unacked_packets' = unacked_packets
           /\ sent_time_ms' = sent_time_ms
           /\ unacked_count' = MAX_UNACKED_PACKETS
           /\ out' = out /\ out.tx = <<>>
           /\ tx_result' = "full"
           /\ pc'.tx = "tx_loop"]_vars

\* C1 witness: a send has just been turned away by the full table.
C1_Witness ==
  /\ tx_result = "full"
  /\ pc.tx = "tx_loop"
  /\ unacked_count = MAX_UNACKED_PACKETS

\* The receiver's last step sent exactly one ACK for sequence number s to a.
AckSent(s, a) ==
  /\ Len(out.rx) = 1
  /\ out.rx[1].pkt.type = PKT_ACK
  /\ out.rx[1].pkt.seq_num = s
  /\ out.rx[1].to = a

\* C2: a received Message whose sequence number is not the expected one has
\* been acknowledged with its own sequence number when the receiver reaches
\* the delivery test, and that test then delivers nothing and leaves
\* expected_seq_num_to_recv as it is.
C2_MismatchAckedNotDelivered ==
  [][/\ (StepFrom("rx", "rx_dispatch") /\ rx_packet.type = PKT_MSG)
          => pc'.rx = "rx_msg_check"
     /\ (StepFrom("rx", "rx_msg_check")
         /\ rx_packet.seq_num # expected_seq_num_to_recv)
          => /\ AckSent(rx_packet.seq_num, peer_addr)
             /\ delivered' = delivered
             /\ expected_seq_num_to_recv' = expected_seq_num_to_recv
             /\ out'.rx = <<>>
             /\ pc'.rx = "rx_loop"]_vars

\* C2 witness: a Message ahead of the cursor has been handled and dropped.
C2_Witness ==
  /\ pc.rx = "rx_loop"
  /\ rx_packet.type = PKT_MSG
  /\ rx_packet.seq_num > expected_seq_num_to_recv
  /\ delivered = <<>>

\* The plaintexts whose encryption under the session key is the payload of p.
PlainOf(p) ==
  {l \in Lines : \E iv \in 0..ByteMod :
     LET e == encrypt_message(l, SECRET_KEY, PAYLOAD_SIZE, TRUE, iv)
     IN p.payload = e.out /\ p.payload_len = e.len}

\* No sequence number occurs twice among the delivered lines.
DeliveredOnce ==
  \A i, j \in 1..Len(delivered) :
    delivered[i].seq = delivered[j].seq => i = j

OfType(ds, t) == {k \in 1..Len(ds) : ds[k].pkt.type = t}

\* C4: the step that dispatches a received Message hands exactly one
\* datagram to sendto: an ACK with the Message's sequence number, addressed
\* to peer_addr, while the delivered lines and the cursor are still
\* untouched; the delivery test that follows sends nothing more, and no
\* other step of any thread sends an ACK.
C4_OneAckPerMessage ==
  /\ [](/\ OfType(out.tx, PKT_ACK) = {} /\ OfType(out.rt, PKT_ACK) = {}
        /\ OfType(out.main, PKT_ACK) = {}
        /\ pc.rx = "rx_msg_check" => AckSent(rx_packet.seq_num, peer_addr))
  /\ [][/\ (StepFrom("rx", "rx_dispatch") /\ rx_packet.type = PKT_MSG)
             => /\ pc'.rx = "rx_msg_check"
                /\ out.rx = <<>>
                /\ Len(out'.rx) = 1
                /\ out'.rx[1].pkt.type = PKT_ACK
                /\ out'.rx[1].pkt.seq_num = rx_packet.seq_num
                /\ out'.rx[1].to = peer_addr
                /\ delivered' = delivered
                /\ expected_seq_num_to_recv' = expected_seq_num_to_recv
        /\ (out'.rx # out.rx /\ out'.rx # <<>>)
             => (pc.rx = "rx_dispatch" /\ rx_packet.type = PKT_MSG)
        /\ StepFrom("rx", "rx_msg_check") => out'.rx = <<>>]_vars

\* C4 witness: the ACK for a Message that is not the expected one has been
\* sent and the delivery test is still to come.
C4_Witness ==
  /\ pc.rx = "rx_msg_check"
  /\ rx_packet.seq_num # expected_seq_num_to_recv
  /\ AckSent(rx_packet.seq_num, peer_addr)
  /\ peer_addr # NoAddr

\* C5: handling an ACK for sequence number s removes the entry with that
\* sequence number if there is one (the count drops by one, every other
\* entry stays with its timestamp, no entry with s is left) and otherwise
\* leaves packets, timestamps and count as they are; either way the
\* receiver goes on with its loop and the session keeps running.
C5_RemoveBySeq ==
  [][StepFrom("rx", "rx_ack_scan")
       => LET s == rx_packet.seq_num
              hit == {e \in LiveNow : e.pkt.seq_num = s}
          IN /\ hit # {} =>
                  /\ unacked_count' = unacked_count - 1
                  /\ Live(unacked_packets', sent_time_ms', unacked_count')
                       = LiveNow \ hit
             /\ hit = {} =>
                  /\ unacked_packets' = unacked_packets
                  /\ sent_time_ms' = sent_time_ms
                  /\ unacked_count' = unacked_count
             /\ running' = running
             /\ pc'.rx = "rx_loop"]_vars

\* C5 witness: the ACK for the first of two pending entries was handled;
\* the second entry now sits in the first slot.
C5_Witness ==
  /\ pc.rx = "rx_loop"
  /\ rx_packet.type = PKT_ACK /\ rx_packet.seq_num = 0
  /\ next_seq_num_to_send = 2
  /\ unacked_count = 1
  /\ unacked_packets[1].seq_num = 1

\* C6 as stated: the sequence numbers of the sent Messages are 0, 1, 2, ...
\* in send order, so the Message about to be sent after nalloc allocations
\* carries nalloc - 1, and no number is given out twice.
C6_AsStated ==
  pc.tx = "tx_send" => tx_packet.seq_num = nalloc - 1

\* C6 amended: the sequence numbers are 0, 1, 2, ... modulo the modulus of
\* the counter: the first is 0 and the k-th allocation (counting from 0)
\* gives out k modulo the modulus, so a number comes back only after a full
\* cycle of the counter.
C6_SeqModulo ==
  /\ [](next_seq_num_to_send = nalloc % UINT32_MOD)
  /\ [][(StepFrom("tx", "tx_locked") /\ unacked_count < MAX_UNACKED_PACKETS)
          => /\ tx_packet'.seq_num = nalloc % UINT32_MOD
             /\ unacked_packets'[unacked_count'].seq_num = nalloc % UINT32_MOD
             /\ nalloc' = nalloc + 1]_vars

\* C6 witness: the counter has gone once round and 0 is about to be sent
\* for the second time.
C6_Witness ==
  /\ nalloc = UINT32_MOD + 1
  /\ pc.tx = "tx_send"
  /\ tx_packet.seq_num = 0

\* C7: a send turned away by the full table leaves next_seq_num_to_send as
\* it is, and the counter moves only in a step that appends an entry
\* carrying the counter's old value, so the number a rejected send would
\* have had goes to the next accepted one.
C7_CheckBeforeAlloc ==
  [][/\ (StepFrom("tx", "tx_locked") /\ unacked_count = MAX_UNACKED_PACKETS)
          => next_seq_num_to_send' = next_seq_num_to_send
     /\ next_seq_num_to_send' # next_seq_num_to_send
          => /\ StepFrom("tx", "tx_locked")
             /\ unacked_count' = unacked_count + 1
             /\ unacked_packets'[unacked_count'].seq_num = next_seq_num_to_send
             /\ tx_packet'.seq_num = next_seq_num_to_send]_vars

\* C7 witness: MAX_UNACKED_PACKETS sends were accepted, the next was turned
\* away, and the counter still names the number after the last accepted one.
C7_Witness ==
  /\ tx_result = "full"
  /\ next_seq_num_to_send = MAX_UNACKED_PACKETS
  /\ LiveSeqs = 0..(MAX_UNACKED_PACKETS - 1)

\* The payload of p is the output of a successful encrypt_message.
Encrypted(p) == p.payload.pad /\ p.payload_len >= 2 * ENC_IV_LEN

\* C8: a line whose encryption fails is dropped: no datagram, no table
\* entry, no sequence number, and the sender goes back to the top of its
\* loop while the session keeps running.  Hence every packet the sender
\* holds past the encryption, every table entry and every Message it sends
\* carries a successfully encrypted payload.
C8_EncryptFailure ==
  /\ [](/\ \A e \in LiveNow : Encrypted(e.pkt)
        /\ pc.tx \in {"tx_lock", "tx_locked", "tx_send"} => Encrypted(tx_packet)
        /\ \A k \in 1..Len(out.tx) : Encrypted(out.tx[k].pkt))
  /\ [][(StepFrom("tx", "tx_input") /\ tx_result' = "encfail")
          => /\ unacked_packets' = unacked_packets
             /\ sent_time_ms' = sent_time_ms
             /\ unacked_count' = unacked_count
             /\ next_seq_num_to_send' = next_seq_num_to_send
             /\ out' = out /\ out.tx = <<>>
             /\ running' = running
             /\ pc'.tx = "tx_loop"]_vars

\* C8 witness: after one accepted send, the encryption of the next line
\* failed; the table and the counter are as the first send left them.
C8_Witness ==
  /\ tx_result = "encfail"
  /\ pc.tx = "tx_loop"
  /\ unacked_count = 1
  /\ next_seq_num_to_send = 1

\* C9: an accepted send appends one entry under the table lock (the packet
\* with the newly allocated sequence number, stamped with the current time,
\* every other slot untouched) and sends nothing while it holds the lock;
\* after the unlock it hands exactly that packet, a Message, to sendto once,
\* addressed to peer_addr, and touches the table no more.  Entries are
\* appended and Messages first sent by no other step.
C9_OneInsertOneSend ==
  /\ [](Len(out.tx) <= 1 /\ (out.tx # <<>> => tx_result = "sent"))
  /\ [][/\ (StepFrom("tx", "tx_locked") /\ unacked_count < MAX_UNACKED_PACKETS)
             => /\ unacked_mutex = "tx" /\ unacked_mutex' = "none"
                /\ tx_packet' = [tx_packet EXCEPT !.seq_num = next_seq_num_to_send]
                /\ tx_packet.type = PKT_MSG
                /\ unacked_count' = unacked_count + 1
                /\ unacked_packets' =
                     [unacked_packets EXCEPT ![unacked_count + 1] = tx_packet']
                /\ sent_time_ms' =
                     [sent_time_ms EXCEPT ![unacked_count + 1] = clock]
                /\ out' = out /\ out.tx = <<>>
                /\ pc'.tx = "tx_send"
        /\ StepFrom("tx", "tx_send")
             => /\ unacked_mutex # "tx"
                /\ out'.tx = <<[pkt |-> tx_packet, to |-> peer_addr]>>
                /\ \A e \in LiveNow :
                     e.pkt.seq_num = tx_packet.seq_num => e.pkt = tx_packet
                /\ unacked_packets' = unacked_packets
                /\ sent_time_ms' = sent_time_ms
                /\ unacked_count' = unacked_count
                /\ pc'.tx = "tx_loop"
        /\ (out'.tx # out.tx /\ out'.tx # <<>>) => pc.tx = "tx_send"
        /\ unacked_count' > unacked_count => StepFrom("tx", "tx_locked")]_vars

\* C9 witness: the second accepted send has gone out; both entries pend.
C9_Witness ==
  /\ tx_result = "sent"
  /\ Len(out.tx) = 1
  /\ out.tx[1].pkt.type = PKT_MSG /\ out.tx[1].pkt.seq_num = 1
  /\ unacked_count = 2
  /\ unacked_packets[2] = out.tx[1].pkt

\* C10: while the peer is unknown peer_addr is unset; it becomes known
\* either in main before the workers start (active role) or in the
\* receiver from the sender address of the datagram it has just received
\* (passive role); once known, no step changes peer_addr or clears
\* peer_addr_known.
C10_PeerSetOnce ==
  /\ [](peer_addr_known = 0 => peer_addr = NoAddr)
  /\ [][/\ peer_addr_known = 1
             => (peer_addr' = peer_addr /\ peer_addr_known' = 1)
        /\ (peer_addr_known = 0 /\ peer_addr_known' # 0)
             => \/ (pc.main = "start" /\ pc.rx = "idle" /\ peer_addr' \in ClientPeers)
                \/ (pc.rx = "rx_peer_set" /\ peer_addr' = sender_addr)]_vars

\* C10 witness: in the passive role the peer was learned from host B, and a
\* datagram from host A is now being dispatched with the peer unchanged.
C10_Witness ==
  /\ peer_addr_known = 1
  /\ peer_addr = "B"
  /\ sender_addr = "A"
  /\ pc.rx = "rx_dispatch"

\* The slots of pending entries whose age at clock reading now exceeds the
\* timeout.
Aged(now) == {i \in 1..unacked_count : now - sent_time_ms[i] > TIMEOUT_MS}

\* C11: a scan of the retransmitter sends again exactly the entries whose
\* age (now - sent time) is strictly greater than TIMEOUT_MS, each once, to
\* peer_addr, and stamps exactly those with now; entries not overdue are
\* neither sent nor stamped; packets, count, the sequence counter, the
\* receive cursor, the peer and the stop flag stay as they are, and no other
\* step of the retransmitter sends or writes the table.
C11_ScanOverdue ==
  [][/\ StepFrom("rt", "rt_scan")
          => /\ Len(out'.rt) = Cardinality(Aged(clock))
             /\ {d.pkt.seq_num : d \in {out'.rt[k] : k \in 1..Len(out'.rt)}}
                  = {unacked_packets[i].seq_num : i \in Aged(clock)}
             /\ \A k \in 1..Len(out'.rt) :
                  /\ out'.rt[k].to = peer_addr
                  /\ \E i \in Aged(clock) : out'.rt[k].pkt = unacked_packets[i]
             /\ \A i \in 1..unacked_count :
                  sent_time_ms'[i] = IF i \in Aged(clock) THEN clock
                                     ELSE sent_time_ms[i]
             /\ unacked_packets' = unacked_packets
             /\ unacked_count' = unacked_count
             /\ shared' = shared
     /\ (out'.rt # out.rt /\ out'.rt # <<>>) => pc.rt = "rt_scan"]_vars

\* C11 witness: of two pending entries the scan found the older overdue and
\* sent it again with a new stamp; the younger kept its stamp.
C11_Witness ==
  /\ pc.rt = "rt_loop"
  /\ unacked_count = 2
  /\ Len(out.rt) = 1 /\ out.rt[1].pkt.seq_num = unacked_packets[1].seq_num
  /\ sent_time_ms[1] = clock
  /\ sent_time_ms[2] < clock /\ clock - sent_time_ms[2] <= TIMEOUT_MS

\* The sequence numbers a step hands to sendto as Messages.
Transmitted == {s \in DOMAIN wire : wire'[s] # wire[s]}

\* C12 as stated: any two consecutive transmissions of the Message with one
\* sequence number lie more than TIMEOUT_MS apart, the original send and the
\* first retransmission included.
C12_AsStated ==
  [][\A s \in Transmitted :
       wire[s].by # "none" => clock - wire[s].at > TIMEOUT_MS]_vars

\* C12 amended: the cadence holds of the clock readings the table records.
\* A retransmission of an entry is made by a scan whose reading of the clock
\* exceeds the entry's recorded time by more than TIMEOUT_MS; the recorded
\* time is the reading taken at the insertion or by the scan that last sent
\* the entry again, and it stays with its packet when an ACK compacts the
\* table.  Hence two successive retransmissions of a sequence number lie
\* more than TIMEOUT_MS apart, and the first retransmission comes more than
\* TIMEOUT_MS after the insertion; the original sendto follows the insertion
\* without the lock and may come any time later.
C12_StampCadence ==
  [][/\ \A e \in Live(unacked_packets', sent_time_ms', unacked_count') \ LiveNow :
          \/ /\ pc.tx = "tx_locked" /\ e.pkt = tx_packet' /\ e.at = clock
             /\ wire[e.pkt.seq_num].by = "none"
          \/ /\ pc.rt = "rt_scan" /\ e.at = clock
             /\ e.pkt.seq_num \in Transmitted
             /\ \E o \in LiveNow : o.pkt = e.pkt /\ clock - o.at > TIMEOUT_MS
     /\ \A s \in Transmitted :
          /\ wire'[s].by = "rt"
               => \E o \in LiveNow : /\ o.pkt.seq_num = s
                                     /\ clock - o.at > TIMEOUT_MS
                                     /\ wire[s].by = "rt" => o.at = wire[s].at
          /\ (wire'[s].by = "rt" /\ wire[s].by = "rt")
               => clock - wire[s].at > TIMEOUT_MS
          /\ wire'[s].by = "tx" => wire[s].by \in {"none", "rt"}]_vars

\* C12 witness: the entry that an ACK for the other one moved into the first
\* slot was retransmitted once, more than TIMEOUT_MS has passed since, and
\* the scan that retransmits it for the second time is under way.
C12_Witness ==
  /\ pc.rt = "rt_scan"
  /\ unacked_count = 1
  /\ unacked_packets[1].seq_num = 1
  /\ wire[0].by = "tx"
  /\ wire[1].by = "rt" /\ wire[1].at = sent_time_ms[1]
  /\ clock - wire[1].at > TIMEOUT_MS

\* The datagrams thread th hands to sendto in this step.
SentBy(th) ==
  IF out'[th] # out[th] THEN {out'[th][k] : k \in 1..Len(out'[th])} ELSE {}

\* C13: whatever the sender or the retransmitter hands to sendto is a
\* Message equal in type, sequence number, payload length and payload to the
\* Message first transmitted with that sequence number; a scan sends stored
\* packets only and leaves the stored packets, the count and everything but
\* the timestamps of the entries it sent as they were.
C13_IdenticalRetransmission ==
  [][/\ \A d \in SentBy("tx") \cup SentBy("rt") :
          /\ d.pkt.type = PKT_MSG
          /\ d.pkt = wire'[d.pkt.seq_num].first
          /\ wire[d.pkt.seq_num].by # "none"
               => d.pkt = wire[d.pkt.seq_num].first
     /\ StepFrom("rt", "rt_scan")
          => /\ \A d \in SentBy("rt") :
                  \E i \in 1..unacked_count :
                    d.pkt = unacked_packets[i] /\ sent_time_ms'[i] = clock
             /\ unacked_packets' = unacked_packets
             /\ unacked_count' = unacked_count
             /\ \A i \in Slots :
                  sent_time_ms'[i] # sent_time_ms[i] =>
                    \E d \in SentBy("rt") : d.pkt = unacked_packets[i]
             /\ shared' = shared]_vars

\* C13 witness: two Messages went out, neither was acknowledged, and one
\* scan has sent both again as they were first sent.
C13_Witness ==
  /\ pc.rt = "rt_loop"
  /\ nalloc = 2 /\ tx_result = "sent" /\ unacked_count = 2
  /\ Len(out.rt) = 2
  /\ \A k \in 1..2 : /\ wire[out.rt[k].pkt.seq_num].by = "rt"
                     /\ wire[out.rt[k].pkt.seq_num].first = out.rt[k].pkt
  /\ out.rt[1].pkt.payload # out.rt[2].pkt.payload

\* The timestamp of the pending entry with sequence number s.
StampOf(s) == sent_time_ms[FindSeq(unacked_packets, unacked_count, s)]

\* C14: an entry leaves the table only through an ACK that names its
\* sequence number, and while it stays and the session runs it is sent
\* again and again: from every clock reading t that leaves the horizon room
\* for one more timeout, a pending entry is later acknowledged or stamped
\* by a retransmission made after t, however often it was sent before.
C14_RetransmitForever ==
  /\ [][\A s \in LiveSeqs :
          s \notin {unacked_packets'[i].seq_num : i \in 1..unacked_count'}
            => /\ pc.rx = "rx_ack_scan"
               /\ rx_packet.type = PKT_ACK /\ rx_packet.seq_num = s]_vars
  /\ \A s \in 0..(UINT32_MOD - 1), t \in 0..WireTime :
       (s \in LiveSeqs /\ clock = t /\ t + TIMEOUT_MS < WireTime /\ running # 0)
         ~> (s \notin LiveSeqs \/ running = 0 \/ StampOf(s) > t)

\* C14 witness: an entry that was already retransmitted once is still
\* pending, unacknowledged, with room for a further retransmission.
C14_Witness ==
  /\ unacked_count = 1
  /\ wire[0].by = "rt" /\ StampOf(0) = wire[0].at
  /\ 0 \in LiveSeqs
  /\ clock + TIMEOUT_MS < WireTime
  /\ ninputs = WireInputs
  /\ running # 0

\* The label at which each worker tests the stop flag, and the label of its
\* blocking call.
LoopOf == [rx |-> "rx_loop", tx |-> "tx_loop", rt |-> "rt_loop"]
BlockOf == [rx |-> "rx_recv", tx |-> "tx_input", rt |-> "rt_sleep"]

\* C15: dispatching a received FIN clears running, and running once cleared
\* stays cleared.  From then on no worker enters its blocking call again: a
\* worker that tests the flag at the top of its loop returns, so each worker
\* returns at the first loop test after its current blocking call (recvfrom,
\* fgets, Sleep) has returned.  The sender tests the flag again when fgets
\* returns a line and then returns without encrypting, inserting or sending.
C15_FinStopsLoops ==
  [][/\ (StepFrom("rx", "rx_dispatch") /\ rx_packet.type = PKT_FIN)
          => (running' = 0 /\ pc'.rx = "rx_loop")
     /\ running = 0 => running' = 0
     /\ \A th \in {"rx", "tx", "rt"} :
          /\ (StepFrom(th, LoopOf[th]) /\ running = 0) => pc'[th] = "done"
          /\ (running = 0 /\ pc'[th] = BlockOf[th]) => pc[th] = BlockOf[th]
          /\ pc[th] = "done" => (pc'[th] = "done" /\ out'[th] = out[th])
     /\ (StepFrom("tx", "tx_input") /\ running = 0)
          => /\ pc'.tx = "done"
             /\ out' = out /\ out.tx = <<>>
             /\ tx_packet' = tx_packet
             /\ tracker' = tracker
             /\ next_seq_num_to_send' = next_seq_num_to_send]_vars

\* C15 witness: a FIN was received while the sender waited in fgets with the
\* peer known; the line fgets then returned was not sent, and all three
\* workers have returned.
C15_Witness ==
  /\ rx_packet.type = PKT_FIN
  /\ running = 0
  /\ pc.rx = "done" /\ pc.tx = "done" /\ pc.rt = "done"
  /\ tx_result = "stopped"
  /\ peer_addr_known = 1
  /\ out.tx = <<>>

\* C16 as stated: the FIN of the shutdown goes out before the worker threads
\* are joined.
C16_AsStated ==
  [][(out'.main # out.main /\ OfType(out'.main, PKT_FIN) # {})
       => pc.main \in {"start", "join"}]_vars

\* C16 amended: main sends the FIN in its cleanup, after the three workers
\* have returned and were joined and before the socket is closed: exactly
\* one FIN, addressed to peer_addr, if the peer is known, and nothing if it
\* is not.  No other step sends a FIN, the cleanup is passed once, and the
\* socket is closed only by the step that follows it.
C16_FinAfterJoin ==
  /\ [](/\ \A th \in {"rx", "tx", "rt"} : OfType(out[th], PKT_FIN) = {}
        /\ sock = "closed" => pc.main = "exit"
        /\ pc.main \in {"cleanup", "close"}
             => (pc.rx = "done" /\ pc.tx = "done" /\ pc.rt = "done"
                 /\ sock = "open"))
  /\ [][/\ StepFrom("main", "cleanup")
             => /\ pc'.main = "close"
                /\ out.main = <<>>
                /\ peer_addr_known # 0
                     => /\ Len(out'.main) = 1
                        /\ out'.main[1].pkt.type = PKT_FIN
                        /\ out'.main[1].pkt.seq_num = next_seq_num_to_send
                        /\ out'.main[1].to = peer_addr
                /\ peer_addr_known = 0 => out'.main = <<>>
        /\ (out'.main # out.main /\ out'.main # <<>>) => pc.main = "cleanup"
        /\ pc'.main = "cleanup" => pc.main \in {"join", "cleanup"}
        /\ StepFrom("main", "close")
             => (sock' = "closed" /\ out'.main = <<>> /\ pc'.main = "exit")]_vars

\* C16 witness: after the peer's FIN stopped the workers of the passive
\* side, main has joined them and sent its one FIN to the peer it had
\* learned; the socket is still open.
C16_Witness ==
  /\ pc.main = "close"
  /\ sock = "open"
  /\ peer_addr_known = 1 /\ peer_addr = "B"
  /\ Len(out.main) = 1
  /\ out.main[1].pkt.type = PKT_FIN /\ out.main[1].to = "B"

\* The lines of the session whose encryption is the payload of p.
PairPlainOf(p) ==
  {l \in PairLines : \E iv \in 0..ByteMod :
     LET e == encrypt_message(l, SECRET_KEY, PAYLOAD_SIZE, TRUE, iv)
     IN p.payload = e.out /\ p.payload_len = e.len}

\* The far end has delivered the Message with sequence number s.
FarDelivered(s) ==
  \E i \in 1..Len(far.delivered) : far.delivered[i].seq = s

\* C17: between two processes on a network that neither loses nor reorders
\* datagrams, what the far end has delivered is at every moment the lines
\* this process accepted, in the order of their sequence numbers, each once
\* and as typed; the far end answers every Message it dispatches with an ACK
\* for that Message's sequence number; and every entry put into the table is
\* eventually delivered at the far end and removed from the table.
C17_LosslessDelivery ==
  /\ [](\A i \in 1..Len(far.delivered) :
          /\ far.delivered[i].seq = i - 1
          /\ wire[i - 1].by # "none"
          /\ PairPlainOf(wire[i - 1].first) = {far.delivered[i].text})
  /\ [][(far.pc = "rx_dispatch" /\ far'.pc # "rx_dispatch")
          => /\ Len(far'.toA) = Len(far.toA) + 1
             /\ far'.toA[Len(far'.toA)].type = PKT_ACK
             /\ far'.toA[Len(far'.toA)].seq_num = far.rx_packet.seq_num]_vars
  /\ \A s \in 0..(PairMsgs - 1) :
       (s \in LiveSeqs) ~> (s \notin LiveSeqs /\ FarDelivered(s))

\* C17 witness: two different lines were accepted, both were delivered at
\* the far end in order, and both entries have left the table; the far end
\* also received a retransmission, which it acknowledged without delivering.
C17_Witness ==
  /\ nalloc = 2 /\ unacked_count = 0
  /\ Len(far.delivered) = 2
  /\ far.delivered[1].text # far.delivered[2].text
  /\ far.pc = "rx_recv"
  /\ far.rx_packet.seq_num = 0 /\ far.expected_seq_num_to_recv = 2
  /\ far.toA = <<>> /\ far.toB = <<>>

\* C18: a datagram shorter than the packet header is dropped before the peer
\* is observed and before the dispatch: the step that receives it takes the
\* receiver back to the top of its loop, and no step the receiver takes
\* while it holds such a datagram sends an ACK, delivers a line, removes a
\* table entry, moves expected_seq_num_to_recv, clears running or sets the
\* peer.
C18_ShortDropped ==
  [][/\ (StepFrom("rx", "rx_recv") /\ n' > 0 /\ n' < HEADER_SIZE)
          => pc'.rx = "rx_loop"
     /\ (n > 0 /\ n < HEADER_SIZE /\ pc'.rx # pc.rx)
          => /\ out'.rx = <<>>
             /\ delivered' = delivered
             /\ tracker' = tracker
             /\ expected_seq_num_to_recv' = expected_seq_num_to_recv
             /\ running' = running
             /\ peer_addr' = peer_addr
             /\ peer_addr_known' = peer_addr_known]_vars

\* C19: a Message whose payload_len is more than PAYLOAD_SIZE never reaches
\* the dispatch, and the receiver neither delivers anything for it nor
\* moves expected_seq_num_to_recv, whatever its sequence number.
C19_OversizeRejected ==
  [][/\ (StepFrom("rx", "rx_recv") /\ n' = PACKET_SIZE
         /\ rx_packet'.type = PKT_MSG /\ rx_packet'.payload_len > PAYLOAD_SIZE)
          => pc'.rx = "rx_loop"
     /\ (n = PACKET_SIZE /\ rx_packet.type = PKT_MSG
         /\ rx_packet.payload_len > PAYLOAD_SIZE /\ pc'.rx # pc.rx)
          => /\ delivered' = delivered
             /\ expected_seq_num_to_recv' = expected_seq_num_to_recv]_vars

C21_TransportFailureStops ==
  [][(pc.rx = "rx_recv" /\ pc'.rx = "rx_loop") => running' = 0]_vars

\* The label at which each worker is inside its tracker operation: the
\* insert of the send path, the removal for an ACK, the scan.
TrackerOp == [tx |-> "tx_locked", rx |-> "rx_ack_scan", rt |-> "rt_scan"]

\* C22: a worker is inside its tracker operation exactly while it holds
\* unacked_mutex, so no two workers are inside one at the same time; and
\* the packets, the timestamps and the count change only in a step of the
\* worker that holds the lock, which is the step of its tracker operation
\* and ends with the unlock.  The operations read the table in these same
\* steps.
C22_TrackerExclusion ==
  /\ [](/\ \A th \in {"tx", "rx", "rt"} :
             pc[th] = TrackerOp[th] <=> unacked_mutex = th
        /\ unacked_mutex \in {"none", "tx", "rx", "rt"})
  /\ [][/\ tracker' # tracker
             => /\ unacked_mutex # "none"
                /\ StepFrom(unacked_mutex, TrackerOp[unacked_mutex])
                /\ unacked_mutex' = "none"
        /\ \A th \in {"tx", "rx", "rt"} :
             pc'[th] = TrackerOp[th] /\ pc[th] # TrackerOp[th]
               => unacked_mutex = "none"]_vars

\* C22 witness: the retransmitter is inside its scan with an entry pending
\* while the sender waits for the lock to insert and the receiver waits for
\* it to handle an ACK.
C22_Witness ==
  /\ pc.rt = "rt_scan" /\ unacked_mutex = "rt"
  /\ pc.tx = "tx_lock"
  /\ pc.rx = "rx_dispatch" /\ rx_packet.type = PKT_ACK
  /\ unacked_count = 1
  /\ rx_packet.seq_num = unacked_packets[1].seq_num

\* C23: peer_addr and peer_addr_known are read and written only under
\* peer_addr_mutex, a lock other than unacked_mutex: once the workers run,
\* the step that writes them is taken by the holder of peer_addr_mutex, and
\* so is every step that reads them: the sender's test of peer_addr_known
\* and its sendto, the receiver's sendto of the ACK, the sendto of a scan
\* that retransmits, and the cleanup of main.
C23_PeerUnderLock ==
  [][/\ (/\ pc.main # "start"
         /\ <<peer_addr, peer_addr_known>>' # <<peer_addr, peer_addr_known>>)
          => peer_addr_mutex = "rx"
     /\ (StepFrom("tx", "tx_input") \/ StepFrom("tx", "tx_send"))
          => peer_addr_mutex = "tx"
     /\ (StepFrom("rx", "rx_dispatch") /\ rx_packet.type = PKT_MSG)
          => peer_addr_mutex = "rx"
     /\ (StepFrom("rt", "rt_scan") /\ out'.rt # <<>>)
          => peer_addr_mutex = "rt"
     /\ StepFrom("main", "cleanup") => peer_addr_mutex = "main"]_vars

\* C24: expected_seq_num_to_recv starts at 0 and changes only in the
\* receiver's delivery test of a Message whose sequence number equals it,
\* and then by one (in uint32_t arithmetic); that test moves it for every
\* such Message.  Handling an ACK, a FIN, a Message with another sequence
\* number, and every step of main, the sender and the retransmitter leave it
\* as it is.
C24_CursorOwnedByReceiver ==
  /\ (pc.rx = "idle" => expected_seq_num_to_recv = 0)
  /\ [][/\ expected_seq_num_to_recv' # expected_seq_num_to_recv
             => /\ StepFrom("rx", "rx_msg_check")
                /\ rx_packet.type = PKT_MSG
                /\ rx_packet.seq_num = expected_seq_num_to_recv
        /\ (StepFrom("rx", "rx_msg_check")
            /\ rx_packet.seq_num = expected_seq_num_to_recv)
             => expected_seq_num_to_recv'
                  = (expected_seq_num_to_recv + 1) % UINT32_MOD
        /\ pc.rx = "idle" => expected_seq_num_to_recv' = 0]_vars

\* C24 witness: the Message with sequence number 0 moved the cursor to 1;
\* since then the sender allocated a sequence number and the receiver
\* handled an ACK, and the cursor is still 1.
C24_Witness ==
  /\ expected_seq_num_to_recv = 1
  /\ Len(delivered) = 1 /\ delivered[1].seq = 0
  /\ next_seq_num_to_send = 1
  /\ rx_packet.type = PKT_ACK
  /\ pc.rx = "rx_loop"

\* C25: when the Message with the expected sequence number carries a payload
\* that does not decrypt (it is the encryption of no line under the session
\* key), the ACK for its sequence number has gone out to peer_addr before
\* the decryption is tried, no line is delivered, and the receiver goes back
\* to the top of its loop with running as it was, to take the next datagram.
C25_DecryptFailureAcked ==
  [][(StepFrom("rx", "rx_msg_check")
      /\ rx_packet.seq_num = expected_seq_num_to_recv
      /\ PlainOf(rx_packet) = {})
       => /\ AckSent(rx_packet.seq_num, peer_addr)
          /\ delivered' = delivered
          /\ out'.rx = <<>>
          /\ running' = running
          /\ pc'.rx = "rx_loop"]_vars

\* C25 witness: the first Message did not decrypt and was acknowledged
\* without a delivery; the receiver went on and has delivered the Message
\* that came after it.
C25_Witness ==
  /\ pc.rx = "rx_loop"
  /\ expected_seq_num_to_recv = 2
  /\ Len(delivered) = 1 /\ delivered[1].seq = 1
  /\ delivered[1].text = <<2, 1>>
  /\ running = 1

\* The entry with sequence number s was put into the table and an ACK has
\* removed it (in a session whose counter has not wrapped).
Removed(s) == s < nalloc /\ s \notin LiveSeqs

\* C26 as stated: once an ACK has removed the entry with sequence number k,
\* no Message k is handed to sendto any more.
C26_AsStated ==
  [][\A s \in Transmitted : ~Removed(s)]_vars

\* C26 amended: once an ACK has removed the entry with sequence number k the
\* retransmitter never sends Message k again, whatever the receiver at the
\* far end did with it: a scan sends pending entries only.  The one
\* transmission of k that can follow the removal is the send path's own
\* sendto of the packet it inserted, which it makes once, after the unlock,
\* whether or not the entry is still there.
C26_NoRetransmitAfterAck ==
  [][/\ \A s \in Transmitted :
          /\ wire'[s].by = "rt" => (pc.rt = "rt_scan" /\ s \in LiveSeqs)
          /\ Removed(s)
               => /\ pc.tx = "tx_send" /\ tx_packet.seq_num = s
                  /\ wire'[s].by = "tx" /\ wire[s].by # "tx"
     /\ StepFrom("rt", "rt_scan")
          => \A d \in SentBy("rt") : /\ d.pkt.seq_num \in LiveSeqs
                                     /\ ~Removed(d.pkt.seq_num)
     /\ StepFrom("tx", "tx_send") => wire[tx_packet.seq_num].by # "tx"]_vars

\* C26 witness: Message 0 went out and its entry was removed by an ACK;
\* more than TIMEOUT_MS after its last transmission a scan is under way with
\* another entry pending.
C26_Witness ==
  /\ pc.rt = "rt_scan"
  /\ wire[0].by = "tx" /\ Removed(0)
  /\ clock - wire[0].at > TIMEOUT_MS
  /\ unacked_count = 1 /\ unacked_packets[1].seq_num = 1

\* The datagram the receiver holds came from an address other than the
\* peer the session is fixed to.
FromStranger ==
  /\ peer_addr_known = 1
  /\ pc.rx \in {"rx_dispatch", "rx_msg_check", "rx_ack_scan"}
  /\ sender_addr # peer_addr

\* C27: once the peer is known, recvfrom takes a datagram from any address
\* to the dispatch, and the peer stays as it is.  A datagram from another
\* address than the peer's has the effects of one from the peer: a Message
\* is answered with one ACK for its sequence number, sent to peer_addr and
\* not to the datagram's sender, and, if it is the expected one, moves the
\* cursor and is delivered; an ACK removes the entry it names; a FIN clears
\* running.
C27_StrangerDispatched ==
  [][/\ (StepFrom("rx", "rx_recv") /\ peer_addr_known = 1 /\ n' > 0)
          => (pc'.rx = "rx_dispatch" /\ peer_addr' = peer_addr)
     /\ FromStranger
          => /\ peer_addr' = peer_addr /\ peer_addr_known' = 1
             /\ (StepFrom("rx", "rx_dispatch") /\ rx_packet.type = PKT_MSG)
                  => /\ Len(out'.rx) = 1
                     /\ out'.rx[1].pkt.type = PKT_ACK
                     /\ out'.rx[1].pkt.seq_num = rx_packet.seq_num
                     /\ out'.rx[1].to = peer_addr
                     /\ out'.rx[1].to # sender_addr
                     /\ pc'.rx = "rx_msg_check"
             /\ (StepFrom("rx", "rx_msg_check")
                 /\ rx_packet.seq_num = expected_seq_num_to_recv)
                  => /\ expected_seq_num_to_recv'
                          = (expected_seq_num_to_recv + 1) % UINT32_MOD
                     /\ \A l \in PlainOf(rx_packet) :
                          delivered' = Append(delivered,
                                              [seq |-> rx_packet.seq_num,
                                               text |-> l])
             /\ (StepFrom("rx", "rx_dispatch") /\ rx_packet.type = PKT_ACK)
                  => pc'.rx = "rx_ack_scan"
             /\ (StepFrom("rx", "rx_ack_scan")
                 /\ rx_packet.seq_num \in LiveSeqs)
                  => /\ unacked_count' = unacked_count - 1
                     /\ Live(unacked_packets', sent_time_ms', unacked_count')
                          = {e \in LiveNow : e.pkt.seq_num # rx_packet.seq_num}
             /\ (StepFrom("rx", "rx_dispatch") /\ rx_packet.type = PKT_FIN)
                  => running' = 0]_vars

\* C27 witness: in the active role with the peer fixed to host A, a Message
\* from host B with the expected sequence number has been acknowledged to
\* host A, and a line was delivered before.
C27_Witness ==
  /\ pc.rx = "rx_msg_check"
  /\ peer_addr = "A" /\ sender_addr = "B"
  /\ rx_packet.seq_num = expected_seq_num_to_recv
  /\ AckSent(rx_packet.seq_num, "A")
  /\ Len(delivered) = 1

\* C28: every ACK and every FIN handed to sendto carries payload_len = 0.
C28_ControlLenZero ==
  \A th \in DOMAIN out : \A k \in 1..Len(out[th]) :
    out[th][k].pkt.type \in {PKT_ACK, PKT_FIN}
      => out[th][k].pkt.payload_len = 0

\* C29: while the peer is unknown nothing is handed to sendto by any thread,
\* the table is empty and no sequence number has been allocated; every
\* datagram is addressed to the known peer.  A line the sender takes while
\* the peer is unknown never gets to the table lock: a line that is not
\* empty ends in the warning, and the step leaves the sequence counter, the
\* table, tx_packet and running as they are, sends nothing and takes the
\* sender back to the top of its loop, where the next iteration starts with
\* a new packet.
C29_NothingSentToUnknownPeer ==
  /\ [](/\ \A th \in DOMAIN out : \A k \in 1..Len(out[th]) :
             /\ peer_addr_known = 1
             /\ out[th][k].to = peer_addr /\ out[th][k].to # NoAddr
        /\ peer_addr_known = 0
             => /\ unacked_count = 0
                /\ next_seq_num_to_send = 0 /\ nalloc = 0
                /\ pc.tx \notin {"tx_lock", "tx_locked", "tx_send"})
  /\ [][/\ (StepFrom("tx", "tx_input") /\ peer_addr_known = 0)
             => pc'.tx \in {"tx_loop", "done"}
        /\ (StepFrom("tx", "tx_input") /\ tx_result' = "nopeer")
             => /\ peer_addr_known = 0
                /\ tracker' = tracker
                /\ next_seq_num_to_send' = next_seq_num_to_send
                /\ nalloc' = nalloc
                /\ tx_packet' = tx_packet
                /\ out' = out /\ out.tx = <<>>
                /\ running' = running
                /\ pc'.tx = "tx_loop"
        /\ StepFrom("tx", "tx_loop") => tx_packet' = ZeroPacket]_vars

\* C29 witness: in the passive role a line was dropped with the warning
\* before any datagram came in; the peer was then learned from host B, and
\* the sender is back at the top of its loop with an empty table, an
\* untouched counter and nothing sent.
C29_Witness ==
  /\ tx_result = "nopeer"
  /\ pc.tx = "tx_loop"
  /\ peer_addr_known = 1 /\ peer_addr = "B"
  /\ unacked_count = 0 /\ next_seq_num_to_send = 0
  /\ out.tx = <<>>

\* C30: as long as the sequence counter has not wrapped, in every state the
\* pending entries carry pairwise different sequence numbers, each entry is
\* a Message, and each entry's sequence number is below
\* next_seq_num_to_send, that is, one the counter has given out.
C30_EntriesDistinctAllocated ==
  nalloc < UINT32_MOD
    => /\ \A i, j \in 1..unacked_count :
            unacked_packets[i].seq_num = unacked_packets[j].seq_num => i = j
       /\ \A i \in 1..unacked_count :
            /\ unacked_packets[i].type = PKT_MSG
            /\ unacked_packets[i].seq_num < next_seq_num_to_send
       /\ next_seq_num_to_send = nalloc

\* C30 witness: of three Messages the first was acknowledged and removed;
\* the table is full with the other two.
C30_Witness ==
  /\ unacked_count = MAX_UNACKED_PACKETS
  /\ next_seq_num_to_send = MAX_UNACKED_PACKETS + 1
  /\ 0 \notin LiveSeqs
  /\ nalloc < UINT32_MOD

C32_PayloadLenBounded ==
  /\ Len(trip.line) <= PAYLOAD_SIZE - 64 - 1
  /\ trip.stage = "encrypted"
       => /\ trip.enc.len >= 0
          /\ trip.enc.len = ENC_IV_LEN + ((Len(trip.line) \div 16) + 1) * 16
          /\ trip.enc.len <= PAYLOAD_SIZE
  /\ trip.stage = "packet"
       => /\ trip.packet.type = PKT_MSG
          /\ trip.packet.payload_len >= 0
          /\ trip.packet.payload_len <= PAYLOAD_SIZE

\* C32 witness: the longest line fgets can return has become a Message.
C32_Witness ==
  /\ trip.stage = "packet"
  /\ Len(trip.line) = LINE_SIZE - 1
  /\ trip.packet.payload_len = 976

\* C33: a Message with the expected sequence number whose payload does not
\* decrypt moves expected_seq_num_to_recv by one and delivers nothing.  The
\* cursor never moves back and only the Message the cursor names is ever
\* delivered, so a later Message with that sequence number, a
\* retransmission included, is acknowledged and dropped, and the sequence
\* number is never delivered.
C33_FailedDecryptSkips ==
  /\ [](\A i \in 1..Len(delivered) :
          delivered[i].seq < expected_seq_num_to_recv)
  /\ [][/\ (StepFrom("rx", "rx_msg_check")
            /\ rx_packet.seq_num = expected_seq_num_to_recv
            /\ PlainOf(rx_packet) = {})
             => /\ expected_seq_num_to_recv' = expected_seq_num_to_recv + 1
                /\ delivered' = delivered
        /\ (StepFrom("rx", "rx_msg_check")
            /\ rx_packet.seq_num < expected_seq_num_to_recv)
             => /\ AckSent(rx_packet.seq_num, peer_addr)
                /\ delivered' = delivered
                /\ expected_seq_num_to_recv' = expected_seq_num_to_recv
        /\ expected_seq_num_to_recv' >= expected_seq_num_to_recv
        /\ delivered' # delivered
             => /\ Len(delivered') = Len(delivered) + 1
                /\ SubSeq(delivered', 1, Len(delivered)) = delivered
                /\ delivered'[Len(delivered')].seq = expected_seq_num_to_recv
                /\ PlainOf(rx_packet) # {}]_vars

\* C33 witness: Message 0 did not decrypt and took the cursor to 1; a later
\* Message 0 that does decrypt has been acknowledged and dropped, and
\* nothing has been delivered.
C33_Witness ==
  /\ pc.rx = "rx_loop"
  /\ rx_packet.type = PKT_MSG /\ rx_packet.seq_num = 0
  /\ PlainOf(rx_packet) # {}
  /\ expected_seq_num_to_recv = 1
  /\ delivered = <<>>
  /\ ninputs = 2

\* A copy of the Message with sequence number k is under way to the far
\* end, or the far end's receiver holds it and has not yet dealt with it.
InFlight(k) ==
  \/ \E i \in 1..Len(far.toB) :
       far.toB[i].type = PKT_MSG /\ far.toB[i].seq_num = k
  \/ /\ far.pc # "rx_recv"
     /\ far.rx_packet.type = PKT_MSG /\ far.rx_packet.seq_num = k

\* C34: between two processes on a network that loses and reorders, when
\* the far end's cursor names a sequence number k that this process has
\* allocated and the far end has not delivered, Message k is still in this
\* process's table or a copy of it is in flight, so that the cursor can
\* still move on.
C34_CursorNeverStuck ==
  \A k \in 0..(UINT32_MOD - 1) :
    (far.expected_seq_num_to_recv = k /\ k < nalloc /\ ~FarDelivered(k))
      => (k \in LiveSeqs \/ InFlight(k))

\* Thread th hands at least one datagram to sendto in this step.
Transmits(th) == out'[th] # out[th] /\ out'[th] # <<>>

\* C35: in a session at most one FIN is handed to sendto: only main sends
\* one, only in its cleanup, which it passes once, only with the peer known
\* and never more than one there, whether the session was stopped by end of
\* input or by a received FIN.  From the cleanup on every worker has
\* returned, and neither a worker nor main hands anything to sendto after
\* it, so the FIN is the last datagram of the session.
C35_OneFinLast ==
  /\ [](/\ \A th \in {"rx", "tx", "rt"} : OfType(out[th], PKT_FIN) = {}
        /\ Cardinality(OfType(out.main, PKT_FIN)) <= 1
        /\ out.main # <<>> => (pc.main = "close" /\ peer_addr_known = 1))
  /\ [][/\ Transmits("main")
             => /\ pc.main = "cleanup" /\ pc'.main = "close"
                /\ peer_addr_known = 1
                /\ Len(out'.main) = 1 /\ out'.main[1].pkt.type = PKT_FIN
                /\ running = 0
        /\ pc.main \in {"cleanup", "close", "exit"}
             => /\ \A th \in {"rx", "tx", "rt"} : ~Transmits(th)
                /\ pc'.main # "join"
        /\ pc.main \in {"close", "exit"}
             => (~Transmits("main") /\ pc'.main \in {"close", "exit"})]_vars

\* C35 witness: end of input, not a FIN from the peer, stopped a session
\* with a Message still unacknowledged; the workers have returned and main
\* has sent its FIN, after which the pending Message is not sent again.
C35_Witness ==
  /\ pc.main = "close"
  /\ rx_packet.type # PKT_FIN
  /\ Len(out.main) = 1 /\ out.main[1].pkt.type = PKT_FIN
  /\ out.main[1].pkt.seq_num = 1
  /\ unacked_count = 1
  /\ out.rt = <<>> /\ out.tx = <<>> /\ out.rx = <<>>

\* C36: the workers cannot deadlock on the two locks.  No thread holds
\* peer_addr_mutex and unacked_mutex together; a thread holds a lock only
\* at the one label of the section the lock guards, where its next step
\* needs nothing from another thread and ends with the unlock, on the path
\* of the full table as on every other; so a thread that is in recvfrom, in
\* fgets, in Sleep or has returned holds no lock.
C36_NoLockDeadlock ==
  /\ [](/\ peer_addr_mutex \in {"none", "rx"}
        /\ peer_addr_mutex = "rx" <=> pc.rx = "rx_peer_set"
        /\ \A th \in {"tx", "rx", "rt"} :
             /\ unacked_mutex = th <=> pc[th] = TrackerOp[th]
             /\ ~(peer_addr_mutex = th /\ unacked_mutex = th)
             /\ pc[th] \in {BlockOf[th], LoopOf[th], "done", "idle"}
                  => (peer_addr_mutex # th /\ unacked_mutex # th))
  /\ [][/\ \A th \in {"tx", "rx", "rt"} :
             /\ StepFrom(th, TrackerOp[th])
                  => (unacked_mutex = th /\ unacked_mutex' = "none")
             /\ (unacked_mutex = th /\ unacked_mutex' # th)
                  => StepFrom(th, TrackerOp[th])
        /\ StepFrom("rx", "rx_peer_set")
             => (peer_addr_mutex = "rx" /\ peer_addr_mutex' = "none")
        /\ (StepFrom("tx", "tx_locked") /\ TableFull(unacked_count))
             => (unacked_mutex' = "none" /\ pc'.tx = "tx_loop")]_vars

\* C36 witness: the receiver is inside the peer section and the
\* retransmitter inside its scan: both locks are held, by different threads.
C36_Witness ==
  /\ peer_addr_mutex = "rx" /\ pc.rx = "rx_peer_set"
  /\ unacked_mutex = "rt" /\ pc.rt = "rt_scan"
  /\ pc.tx = "tx_input"


\* A call of utils.c has just returned.
PerfCall(op) == perf_hist'.nops # perf_hist.nops /\ perf_hist'.op = op
PerfAdds == PerfCall("add") \/ PerfCall("format") \/ PerfCall("format_failed")

\* What C37 says of the list: the count stays within 0..MAX_PENDING_MSGS,
\* and an add to a full list drops the oldest entry, keeps the others in
\* their order and puts the new one last.
PendingListKept ==
  /\ [](pending_count >= 0 /\ pending_count <= MAX_PENDING_MSGS)
  /\ [][(PerfCall("add") /\ pending_count = MAX_PENDING_MSGS)
        => /\ pending_count' = MAX_PENDING_MSGS
           /\ SubSeq(PendingNow', 1, MAX_PENDING_MSGS - 1) = Tail(PendingNow)
           /\ PendingNow'[MAX_PENDING_MSGS].sequence = perf_hist'.ret
           /\ PendingNow'[MAX_PENDING_MSGS].timestamp = get_timestamp_us]_vars

\* C37 as stated: after any single-threaded sequence of calls the list is
\* kept as above, and the sequence numbers the adds return start at 1 and
\* each is the one before plus 1.
C37_AsStated ==
  /\ PendingListKept
  /\ [][PerfAdds => perf_hist'.last = IF perf_hist.last = -1 THEN 1
                                      ELSE perf_hist.last + 1]_vars

\* C37, amended: after any single-threaded sequence of calls the list is
\* kept as above, and the sequence numbers the adds return start at 1 and
\* each is the one before plus 1 modulo 2^32: next_sequence is a uint32_t
\* and the add after 2^32 - 1 returns 0.
C37_TrackerSequence ==
  /\ PendingListKept
  /\ [][PerfAdds => perf_hist'.last = IF perf_hist.last = -1 THEN 1
                                      ELSE (perf_hist.last + 1) % UINT32_MOD]_vars
  /\ [][PerfCall("add") => perf_hist'.ret = perf_hist'.last]_vars

\* C37 witness: the add whose sequence number wrapped to 0 found the list
\* full and pushed the oldest entry out.
C37_Witness ==
  /\ perf_hist.op = "add"
  /\ perf_hist.ret = 0
  /\ pending_count = MAX_PENDING_MSGS
  /\ PendingNow[1].sequence = UINT32_MOD - MAX_PENDING_MSGS + 1
  /\ PendingNow[MAX_PENDING_MSGS].sequence = 0


\* C38: a perf_format_message call whose message does not fit the buffer
\* returns -1 and leaves the pending list as it was before the call: the
\* same entries in the same order and the same count, also when the list
\* was full.
C38_FailedFormatKeepsList ==
  [][PerfCall("format_failed")
       => /\ perf_hist'.ret = -1
          /\ pending_count' = pending_count
          /\ PendingNow' = PendingNow]_vars


\* C39: with main's send loop, receiver_fn and cleanup_fn working on the
\* pending list at the same time, under every interleaving pending_count
\* stays within 0..MAX_PENDING_MSGS and each pending sequence number is
\* removed at most once.
C39_ConcurrentListSafe ==
  /\ pending_count >= 0
  /\ pending_count <= MAX_PENDING_MSGS
  /\ \A s \in DOMAIN removed : removed[s] <= 1


\* C40: the removal on an ACK keeps packets and timestamps paired.  The
\* entry of the last slot moves, packet and sent time together, into the
\* slot of the first entry with the acknowledged number; every other
\* remaining slot keeps its packet and its sent time, so no other entry is
\* lost or doubled and only the moved entry changes position.
C40_SwapKeepsPairs ==
  [][StepFrom("rx", "rx_ack_scan")
       => LET hits == {k \in 1..unacked_count :
                         unacked_packets[k].seq_num = rx_packet.seq_num}
          IN hits # {} =>
               \E i \in hits :
                 /\ \A k \in hits : i <= k
                 /\ unacked_count' = unacked_count - 1
                 /\ \A k \in 1..unacked_count' :
                      LET from == IF k = i THEN unacked_count ELSE k
                      IN /\ unacked_packets'[k] = unacked_packets[from]
                         /\ sent_time_ms'[k] = sent_time_ms[from]]_vars

\* C40 witness: Message 0, last sent at time 0, was acknowledged while
\* Message 1, stamped later, was pending behind it; Message 1 now sits in
\* the first slot with its own sent time.
C40_Witness ==
  /\ DOMAIN wire # {}
  /\ pc.rx = "rx_loop"
  /\ rx_packet.type = PKT_ACK /\ rx_packet.seq_num = 0
  /\ wire[0].at = 0
  /\ unacked_count = 1
  /\ unacked_packets[1].seq_num = 1
  /\ sent_time_ms[1] > 0

====
